---- MODULE Spec2Model ----
(***************************************************************************)
(* Model of the task orchestration engine of the Micro Agent System:       *)
(* PlanExecuteAgent.execute_task (Plan-Execute-Verify-Replan), its step    *)
(* scheduler _execute_plan / _execute_step, _verify_execution,             *)
(* _extract_final_output, and the background runner of the REST routes     *)
(* that stores the record of a task.                                       *)
(*                                                                         *)
(* Texts (Python str) are sequences of string tokens whose concatenation   *)
(* is the Python string; an inference response is a sequence of            *)
(* characters.  Optional values carry a flag (Python None).                *)
(***************************************************************************)
EXTENDS Integers, Sequences, FiniteSets, TLC

\* Largest configured max_replan_attempts the model explores.
MaxReplanBound == 2

---------------------------------------------------------------------------
\* ExecutionStatus (domain/entities.py)
PENDING == "pending"
PLANNING == "planning"
EXECUTING == "executing"
VERIFYING == "verifying"
COMPLETED == "completed"
FAILED == "failed"
REPLANNING == "replanning"
CANCELLED == "cancelled"

ExecutionStatus ==
  {PENDING, PLANNING, EXECUTING, VERIFYING, COMPLETED, FAILED, REPLANNING, CANCELLED}

\* VerificationResult (domain/entities.py)
VR_SUCCESS == "success"
VR_PARTIAL == "partial"
VR_FAILED == "failed"

\* Optional[str]: None, or a text.
NoText == [set |-> FALSE, text |-> <<>>]
Text(t) == [set |-> TRUE, text |-> t]

\* Optional[Any] for outputs: None, or the dict a step returns, kept as the
\* sequence of its (key, value) pairs in insertion order.
NoOutput == [none |-> TRUE, items |-> <<>>]
DictOutput(items) == [none |-> FALSE, items |-> items]

\* Python truthiness of an output: None and the empty dict are falsy.
Truthy(o) == ~o.none /\ o.items # <<>>

\* outputs[key] = value on a dict kept as a sequence of pairs.
RECURSIVE DictSet(_, _, _)
DictSet(items, key, value) ==
  IF items = <<>> THEN <<<<key, value>>>>
  ELSE IF Head(items)[1] = key THEN <<<<key, value>>>> \o Tail(items)
  ELSE <<Head(items)>> \o DictSet(Tail(items), key, value)

\* sep.join(parts), as a sequence of tokens.
RECURSIVE Join(_, _)
Join(sep, parts) ==
  IF parts = <<>> THEN <<>>
  ELSE IF Len(parts) = 1 THEN <<parts[1]>>
  ELSE <<parts[1], sep>> \o Join(sep, Tail(parts))

\* [f(x) for x in s if p(x)] helpers over sequences.
RECURSIVE FailedStepIds(_)
FailedStepIds(rs) ==
  IF rs = <<>> THEN <<>>
  ELSE IF Head(rs).status = FAILED
       THEN <<Head(rs).step_id>> \o FailedStepIds(Tail(rs))
       ELSE FailedStepIds(Tail(rs))

Range(s) == {s[i] : i \in DOMAIN s}

---------------------------------------------------------------------------
\* str.lower() on the characters inference responses and task descriptions
\* are made of.
LowerChar(c) ==
  CASE c = "Y" -> "y"
    [] c = "E" -> "e"
    [] c = "S" -> "s"
    [] c = "L" -> "l"
    [] c = "M" -> "m"
    [] c = "N" -> "n"
    [] c = "O" -> "o"
    [] c = "A" -> "a"
    [] c = "D" -> "d"
    [] c = "F" -> "f"
    [] c = "I" -> "i"
    [] c = "P" -> "p"
    [] c = "Q" -> "q"
    [] OTHER -> c

Lower(s) == [i \in DOMAIN s |-> LowerChar(s[i])]

\* sub in s, for sequences of characters.
Contains(sub, s) ==
  \E k \in 0..(Len(s) - Len(sub)) :
    \A i \in 1..Len(sub) : s[k + i] = sub[i]

\* The responses the inference capability may give to the verification
\* prompt.  PlaceholderResponse is what _call_llm returns in the source.
PlaceholderResponse ==
  <<"L","L","M"," ","r","e","s","p","o","n","s","e"," ",
    "p","l","a","c","e","h","o","l","d","e","r">>

Responses ==
  { PlaceholderResponse,
    <<"Y","E","S">>,
    <<"N","o">> }

---------------------------------------------------------------------------
\* The registry the routes build at import: two tools, in this order.
RegisteredTools == <<"code_generator", "file_operation">>

\* ToolRegistry.get_tool: the tool (named by its name) or None.
get_tool(tool_name) ==
  IF tool_name \in Range(RegisteredTools) THEN [found |-> TRUE, name |-> tool_name]
  ELSE [found |-> FALSE, name |-> tool_name]

\* CodeGeneratorTool.validate_parameters
CodeGeneratorValidate(parameters) ==
  IF ~("language" \in DOMAIN parameters) \/ ~("specification" \in DOMAIN parameters)
  THEN FALSE
  ELSE IF parameters["language"] \notin {"dart", "python", "javascript"}
  THEN FALSE
  ELSE TRUE

\* FileOperationTool.validate_parameters
FileOperationValidate(parameters) ==
  IF ~("operation" \in DOMAIN parameters) \/ ~("path" \in DOMAIN parameters)
  THEN FALSE
  ELSE IF parameters["operation"] \notin {"read", "write", "list", "delete", "exists"}
  THEN FALSE
  ELSE IF parameters["operation"] = "write" /\ ~("content" \in DOMAIN parameters)
  THEN FALSE
  ELSE TRUE

\* tool.validate_parameters(parameters), by tool name.
validate_parameters(tool_name, parameters) ==
  CASE tool_name = "code_generator" -> CodeGeneratorValidate(parameters)
    [] tool_name = "file_operation" -> FileOperationValidate(parameters)
    [] OTHER -> TRUE

\* What an awaited tool.execute can do: return a value, raise, or not
\* return before the step timeout.
ExecOutcomes == {"return", "raise", "hang"}

\* The value tool.execute(parameters) returns: what the tool makes of these
\* parameters (its content is not looked at).
ToolOutput(tool_name, parameters) == [tool |-> tool_name, of |-> parameters]

\* str(e) of an exception raised by a tool's execute.
ToolErrorText == <<"tool execution error">>

---------------------------------------------------------------------------
\* PlanStep: id, parameters, required_tools, dependencies.
Step(id, parameters, required_tools, dependencies) ==
  [id |-> id, parameters |-> parameters,
   required_tools |-> required_tools, dependencies |-> dependencies]

\* The plan _create_plan builds in the source: one step on the first
\* registered tool, with the task description as its only parameter.
PlaceholderPlan ==
  [steps |-> << Step("step_1", [task |-> "t"],
                     IF RegisteredTools # <<>> THEN <<RegisteredTools[1]>> ELSE <<>>,
                     <<>>) >>]

\* step1, step2 depends on step1, step3 depends on step2.
ChainPlan ==
  [steps |-> << Step("step1", [operation |-> "read", path |-> "p"],
                     <<"file_operation">>, <<>>),
                Step("step2", [language |-> "dart", specification |-> "s"],
                     <<"code_generator">>, <<"step1">>),
                Step("step3", [operation |-> "write", path |-> "p", content |-> "c"],
                     <<"file_operation">>, <<"step2">>) >>]

\* An unregistered tool, then an independent step without tools, then a
\* step that depends on the first.
MixedPlan ==
  [steps |-> << Step("a", [operation |-> "read", path |-> "p"],
                     <<"ghost_tool">>, <<>>),
                Step("b", [task |-> "t"], <<>>, <<>>),
                Step("c", [operation |-> "list", path |-> "p"],
                     <<"file_operation">>, <<"a">>) >>]

\* A forward dependency and a self dependency.
ForwardPlan ==
  [steps |-> << Step("f1", [task |-> "t"], <<>>, <<"f2">>),
                Step("f2", [operation |-> "exists", path |-> "p"],
                     <<"file_operation">>, <<>>),
                Step("f3", [task |-> "t"], <<>>, <<"f3">>) >>]

\* A step with two required tools, the second of which rejects the
\* parameters; then a step whose only tool rejects them.
MultiToolPlan ==
  [steps |-> << Step("m1", [operation |-> "read", path |-> "p"],
                     <<"file_operation", "code_generator">>, <<>>),
                Step("m2", [language |-> "cobol", specification |-> "s"],
                     <<"code_generator">>, <<>>) >>]

\* Steps without tools: every output is the empty dict.
NoToolPlan ==
  [steps |-> << Step("n1", [task |-> "t"], <<>>, <<>>),
                Step("n2", [task |-> "t"], <<>>, <<"n1">>) >>]

EmptyPlan == [steps |-> <<>>]

\* The plans planning may produce.
Plans ==
  {PlaceholderPlan, ChainPlan, MixedPlan, ForwardPlan, MultiToolPlan,
   NoToolPlan, EmptyPlan}

\* Optional[AgentPlan] of the record: None, or a plan.
NoPlan == [none |-> TRUE, steps |-> <<>>]
SomePlan(p) == [none |-> FALSE, steps |-> p.steps]

\* StepResult
StepResult(step_id, status, output, error_message) ==
  [step_id |-> step_id, status |-> status,
   output |-> output, error_message |-> error_message]

---------------------------------------------------------------------------
\* Mutant of _dependencies_satisfied: a result of any status satisfies a
\* dependency.
dependencies_satisfied_any_status(step, rs) ==
  IF step.dependencies = <<>> THEN TRUE
  ELSE \A k \in DOMAIN step.dependencies :
         step.dependencies[k] \in {rs[i].step_id : i \in DOMAIN rs}

\* Mutant of _dependencies_satisfied: a dependency on a step without a
\* result yet is left for later, only dependencies with a result are tested.
dependencies_satisfied_deferring(step, rs) ==
  IF step.dependencies = <<>> THEN TRUE
  ELSE \A k \in DOMAIN step.dependencies :
         \A i \in DOMAIN rs :
           rs[i].step_id = step.dependencies[k] => rs[i].status = COMPLETED

\* PlanExecuteAgent._dependencies_satisfied
_dependencies_satisfied(step, rs) ==
  IF step.dependencies = <<>> THEN TRUE
  ELSE LET completed_step_ids ==
             {rs[i].step_id : i \in {j \in DOMAIN rs : rs[j].status = COMPLETED}}
       IN \A k \in DOMAIN step.dependencies :
            step.dependencies[k] \in completed_step_ids

\* Mutant of ExecuteStepFrom: the validate_parameters test is dropped, so a
\* tool is executed whatever its parameters.
RECURSIVE ExecuteStepFrom_unvalidated(_, _, _, _)
ExecuteStepFrom_unvalidated(step, oc, i, acc) ==
  IF i > Len(step.required_tools)
  THEN [kind |-> "return", outputs |-> acc.outputs, error |-> <<>>, calls |-> acc.calls]
  ELSE
    LET tool_name == step.required_tools[i]
        tool == get_tool(tool_name)
        called == Append(acc.calls, <<step.id, tool_name>>)
    IN IF ~tool.found
       THEN [kind |-> "raise", outputs |-> acc.outputs,
             error |-> <<"Tool not found: ", tool_name>>, calls |-> acc.calls]
       ELSE CASE oc[i] = "return" ->
                   ExecuteStepFrom_unvalidated(step, oc, i + 1,
                     [outputs |-> DictSet(acc.outputs, tool_name, ToolOutput(tool_name, step.parameters)),
                      calls |-> called])
              [] oc[i] = "raise" ->
                   [kind |-> "raise", outputs |-> acc.outputs,
                    error |-> ToolErrorText, calls |-> called]
              [] OTHER ->
                   [kind |-> "timeout", outputs |-> acc.outputs,
                    error |-> <<>>, calls |-> called]

\* PlanExecuteAgent._execute_step from its i-th required tool on.  oc[i] is
\* what the i-th tool's execute does if it is reached.  acc holds the outputs
\* dict and the executes invoked so far.  The value tells how the coroutine
\* ends under wait_for: it returns the outputs, raises, or is cut by the
\* step timeout.
RECURSIVE ExecuteStepFrom(_, _, _, _)
ExecuteStepFrom(step, oc, i, acc) ==
  IF i > Len(step.required_tools)
  THEN [kind |-> "return", outputs |-> acc.outputs, error |-> <<>>, calls |-> acc.calls]
  ELSE
    LET tool_name == step.required_tools[i]
        tool == get_tool(tool_name)
        called == Append(acc.calls, <<step.id, tool_name>>)
    IN IF ~tool.found
       THEN [kind |-> "raise", outputs |-> acc.outputs,
             error |-> <<"Tool not found: ", tool_name>>, calls |-> acc.calls]
       ELSE IF ~validate_parameters(tool_name, step.parameters)
       THEN [kind |-> "raise", outputs |-> acc.outputs,
             error |-> <<"Invalid parameters for tool: ", tool_name>>,
             calls |-> acc.calls]
       ELSE CASE oc[i] = "return" ->
                   ExecuteStepFrom(step, oc, i + 1,
                     [outputs |-> DictSet(acc.outputs, tool_name, ToolOutput(tool_name, step.parameters)),
                      calls |-> called])
              [] oc[i] = "raise" ->
                   [kind |-> "raise", outputs |-> acc.outputs,
                    error |-> ToolErrorText, calls |-> called]
              [] OTHER ->
                   [kind |-> "timeout", outputs |-> acc.outputs,
                    error |-> <<>>, calls |-> called]

_execute_step(step, oc) ==
  ExecuteStepFrom(step, oc, 1, [outputs |-> <<>>, calls |-> <<>>])

\* Mutant of ExecutePlanIteration: the timeout handler records no result.
ExecutePlanIteration_timeout_unrecorded(step, rs, oc) ==
  IF ~_dependencies_satisfied(step, rs)
  THEN [results |-> Append(rs, StepResult(step.id, FAILED, NoOutput,
                                          Text(<<"Dependencies not satisfied">>))),
        calls |-> <<>>, cancelled |-> <<>>]
  ELSE LET e == _execute_step(step, oc)
       IN CASE e.kind = "return" ->
                 [results |-> Append(rs, StepResult(step.id, COMPLETED,
                                                    DictOutput(e.outputs), NoText)),
                  calls |-> e.calls, cancelled |-> <<>>]
            [] e.kind = "timeout" ->
                 [results |-> rs, calls |-> e.calls,
                  cancelled |-> <<e.calls[Len(e.calls)]>>]
            [] OTHER ->
                 [results |-> Append(rs, StepResult(step.id, FAILED, NoOutput,
                                                    Text(e.error))),
                  calls |-> e.calls, cancelled |-> <<>>]

\* Mutant of ExecutePlanIteration: a timeout is recorded with the message of
\* an execution exception.
ExecutePlanIteration_timeout_as_exception(step, rs, oc) ==
  IF ~_dependencies_satisfied(step, rs)
  THEN [results |-> Append(rs, StepResult(step.id, FAILED, NoOutput,
                                          Text(<<"Dependencies not satisfied">>))),
        calls |-> <<>>, cancelled |-> <<>>]
  ELSE LET e == _execute_step(step, oc)
       IN CASE e.kind = "return" ->
                 [results |-> Append(rs, StepResult(step.id, COMPLETED,
                                                    DictOutput(e.outputs), NoText)),
                  calls |-> e.calls, cancelled |-> <<>>]
            [] e.kind = "timeout" ->
                 [results |-> Append(rs, StepResult(step.id, FAILED, NoOutput,
                                                    Text(ToolErrorText))),
                  calls |-> e.calls, cancelled |-> <<e.calls[Len(e.calls)]>>]
            [] OTHER ->
                 [results |-> Append(rs, StepResult(step.id, FAILED, NoOutput,
                                                    Text(e.error))),
                  calls |-> e.calls, cancelled |-> <<>>]

\* One iteration of the loop of _execute_plan: the results list after the
\* step, the tool executes the iteration invoked, and the execute that
\* wait_for cancelled at the step timeout.
ExecutePlanIteration(step, rs, oc) ==
  IF ~_dependencies_satisfied(step, rs)
  THEN [results |-> Append(rs, StepResult(step.id, FAILED, NoOutput,
                                          Text(<<"Dependencies not satisfied">>))),
        calls |-> <<>>, cancelled |-> <<>>]
  ELSE LET e == _execute_step(step, oc)
       IN CASE e.kind = "return" ->
                 [results |-> Append(rs, StepResult(step.id, COMPLETED,
                                                    DictOutput(e.outputs), NoText)),
                  calls |-> e.calls, cancelled |-> <<>>]
            [] e.kind = "timeout" ->
                 [results |-> Append(rs, StepResult(step.id, FAILED, NoOutput,
                                                    Text(<<"Step execution timeout">>))),
                  calls |-> e.calls, cancelled |-> <<e.calls[Len(e.calls)]>>]
            [] OTHER ->
                 [results |-> Append(rs, StepResult(step.id, FAILED, NoOutput,
                                                    Text(e.error))),
                  calls |-> e.calls, cancelled |-> <<>>]

\* Mutant of AllCompleted: any() in place of all().
AllCompleted_any(rs) == \E i \in DOMAIN rs : rs[i].status = COMPLETED

\* _verify_execution: all_completed, which decides whether the inference
\* capability is called.
AllCompleted(rs) == \A i \in DOMAIN rs : rs[i].status = COMPLETED

\* Mutant of _verify_execution: the reasoning names the first failed step
\* only.
verify_execution_first_failure(rs, response) ==
  IF ~AllCompleted(rs)
  THEN [result |-> VR_FAILED,
        reasoning |-> <<"Steps failed: ", FailedStepIds(rs)[1]>>,
        task_complete |-> FALSE,
        should_replan |-> TRUE]
  ELSE LET task_complete == Contains(<<"y", "e", "s">>, Lower(response))
       IN [result |-> IF task_complete THEN VR_SUCCESS ELSE VR_PARTIAL,
           reasoning |-> response,
           task_complete |-> task_complete,
           should_replan |-> ~task_complete]

\* _verify_execution, given the response of the inference call it makes
\* when every result is completed.
_verify_execution(rs, response) ==
  IF ~AllCompleted(rs)
  THEN [result |-> VR_FAILED,
        reasoning |-> <<"Steps failed: ">> \o Join(", ", FailedStepIds(rs)),
        task_complete |-> FALSE,
        should_replan |-> TRUE]
  ELSE LET task_complete == Contains(<<"y", "e", "s">>, Lower(response))
       IN [result |-> IF task_complete THEN VR_SUCCESS ELSE VR_PARTIAL,
           reasoning |-> response,
           task_complete |-> task_complete,
           should_replan |-> ~task_complete]

\* _replan: the source returns the plan it was given.
_replan(original_plan) == original_plan

\* _extract_final_output: scan newest first.
RECURSIVE ScanReversed(_, _)
ScanReversed(rs, i) ==
  IF i = 0 THEN NoOutput
  ELSE IF rs[i].status = COMPLETED /\ Truthy(rs[i].output) THEN rs[i].output
  ELSE ScanReversed(rs, i - 1)

\* Mutant of _extract_final_output: scans oldest first.
RECURSIVE ScanForward(_, _)
ScanForward(rs, i) ==
  IF i > Len(rs) THEN NoOutput
  ELSE IF rs[i].status = COMPLETED /\ Truthy(rs[i].output) THEN rs[i].output
  ELSE ScanForward(rs, i + 1)

extract_final_output_oldest_first(rs) ==
  IF rs = <<>> THEN NoOutput ELSE ScanForward(rs, 1)

_extract_final_output(rs) ==
  IF rs = <<>> THEN NoOutput ELSE ScanReversed(rs, Len(rs))

\* Mutant of LoopCondition: < in place of <=.
LoopCondition_strict(rc, max) == rc < max

\* while replan_count <= self.max_replan_attempts
LoopCondition(rc, max) == rc <= max

\* Mutant of Decision: a task whose replans are used up is reported
\* complete.
Decision_complete_when_exhausted(v, rc, max) ==
  IF v.task_complete THEN "complete"
  ELSE IF v.should_replan /\ rc < max THEN "replan"
  ELSE "complete"

\* Mutant of Decision: <= in place of < in the replan test.
Decision_replan_at_limit(v, rc, max) ==
  IF v.task_complete THEN "complete"
  ELSE IF v.should_replan /\ rc <= max THEN "replan"
  ELSE "fail"

\* The branch execute_task takes after a verification.
Decision(v, rc, max) ==
  IF v.task_complete THEN "complete"
  ELSE IF v.should_replan /\ rc < max THEN "replan"
  ELSE "fail"

\* str(e) of an exception raised by the call awaited in a phase.
ExceptionText(phase) == <<"error in ", phase>>

---------------------------------------------------------------------------
\* ToolRegistry: the tool map and the two indexes, each a dict kept as a
\* sequence of <<key, value>> pairs in insertion order.

\* key in d
DictHas(items, key) == \E i \in DOMAIN items : items[i][1] = key

\* d[key], for a key of d
DictGet(items, key) == items[CHOOSE i \in DOMAIN items : items[i][1] = key][2]

\* list(d.keys())
DictKeys(items) == [i \in DOMAIN items |-> items[i][1]]

\* list(d.values())
DictValues(items) == [i \in DOMAIN items |-> items[i][2]]

\* d.pop(key)
DictPop(items, key) == SelectSeq(items, LAMBDA kv : kv[1] # key)

\* list.remove(x) for an x of the list: the first occurrence goes.
ListRemove(list, x) ==
  LET i == CHOOSE j \in DOMAIN list :
             list[j] = x /\ \A k \in 1..(j - 1) : list[k] # x
  IN SubSeq(list, 1, i - 1) \o SubSeq(list, i + 1, Len(list))

\* A tool: the instance and the fields of its metadata the registry reads.
Tool(instance, name, capabilities, domain) ==
  [instance |-> instance, name |-> name, capabilities |-> capabilities,
   domain |-> domain]

CodeGeneratorTool(instance) ==
  Tool(instance, "code_generator",
       <<"CODE_GENERATION", "FLUTTER_WIDGETS", "DART_CODE">>, "code_generation")

FileOperationTool(instance) ==
  Tool(instance, "file_operation",
       <<"FILE_READ", "FILE_WRITE", "FILE_LIST", "FILE_DELETE">>, "file_system")

\* Another provider under the name of the code generator.
OtherGeneratorTool(instance) ==
  Tool(instance, "code_generator", <<"DART_CODE", "PYTHON_CODE">>, "scripting")

\* ToolRegistry.__init__
EmptyRegistry == [tools |-> <<>>, capability_index |-> <<>>, domain_index |-> <<>>]

\* index[key].append(name), after index[key] = [] for a new key
IndexAppend(index, key, name) ==
  DictSet(index, key,
          Append(IF DictHas(index, key) THEN DictGet(index, key) ELSE <<>>, name))

\* for capability in metadata.capabilities, from the i-th on
RECURSIVE IndexCapabilities(_, _, _, _)
IndexCapabilities(index, capabilities, i, name) ==
  IF i > Len(capabilities) THEN index
  ELSE IndexCapabilities(IndexAppend(index, capabilities[i], name),
                         capabilities, i + 1, name)

\* ToolRegistry.register: the tool map entry is assigned, and the name is
\* appended under each capability and under the domain.
register(reg, tool) ==
  [tools |-> DictSet(reg.tools, tool.name, tool),
   capability_index |->
     IndexCapabilities(reg.capability_index, tool.capabilities, 1, tool.name),
   domain_index |-> IndexAppend(reg.domain_index, tool.domain, tool.name)]

\* index[key].remove(name) when key is in the index; list.remove raises
\* ValueError for a name the list does not hold.
IndexRemove(index, key, name) ==
  IF ~DictHas(index, key) THEN [index |-> index, raised |-> FALSE]
  ELSE IF name \in Range(DictGet(index, key))
  THEN [index |-> DictSet(index, key, ListRemove(DictGet(index, key), name)),
        raised |-> FALSE]
  ELSE [index |-> index, raised |-> TRUE]

\* for capability in metadata.capabilities, from the i-th on
RECURSIVE UnindexCapabilities(_, _, _, _)
UnindexCapabilities(index, capabilities, i, name) ==
  IF i > Len(capabilities) THEN [index |-> index, raised |-> FALSE]
  ELSE LET r == IndexRemove(index, capabilities[i], name)
       IN IF r.raised THEN r
          ELSE UnindexCapabilities(r.index, capabilities, i + 1, name)

\* ToolRegistry.unregister: the registry it leaves, the value returned, and
\* whether list.remove raised on the way.
unregister(reg, tool_name) ==
  IF ~DictHas(reg.tools, tool_name)
  THEN [registry |-> reg, returned |-> FALSE, raised |-> FALSE]
  ELSE LET metadata == DictGet(reg.tools, tool_name)
           popped == DictPop(reg.tools, tool_name)
           caps == UnindexCapabilities(reg.capability_index,
                                       metadata.capabilities, 1, tool_name)
           dom == IndexRemove(reg.domain_index, metadata.domain, tool_name)
       IN IF caps.raised
          THEN [registry |-> [tools |-> popped, capability_index |-> caps.index,
                              domain_index |-> reg.domain_index],
                returned |-> FALSE, raised |-> TRUE]
          ELSE [registry |-> [tools |-> popped, capability_index |-> caps.index,
                              domain_index |-> dom.index],
                returned |-> ~dom.raised, raised |-> dom.raised]

\* ToolRegistry.get_tool on a registry value: None, or the tool.
registry_get_tool(reg, tool_name) ==
  IF DictHas(reg.tools, tool_name)
  THEN [found |-> TRUE, tool |-> DictGet(reg.tools, tool_name)]
  ELSE [found |-> FALSE, tool |-> Tool("none", tool_name, <<>>, "none")]

\* ToolRegistry.list_tools_by_capability
list_tools_by_capability(reg, capability) ==
  IF DictHas(reg.capability_index, capability)
  THEN DictGet(reg.capability_index, capability)
  ELSE <<>>

\* The names get_tools_for_domain reads from the domain index.
DomainNames(reg, domain) ==
  IF DictHas(reg.domain_index, domain)
  THEN DictGet(reg.domain_index, domain)
  ELSE <<>>

\* ToolRegistry.get_tools_for_domain: self._tools[name] raises KeyError for
\* a listed name the tool map does not hold.
get_tools_for_domain(reg, domain) ==
  LET names == DomainNames(reg, domain)
  IN IF \E i \in DOMAIN names : ~DictHas(reg.tools, names[i])
     THEN [raised |-> TRUE, tools |-> <<>>]
     ELSE [raised |-> FALSE,
           tools |-> [i \in DOMAIN names |-> DictGet(reg.tools, names[i])]]

\* ToolRegistry.get_tools_for_capabilities: the set of the tools, the order
\* of a Python set being unspecified.
get_tools_for_capabilities(reg, capabilities) ==
  LET tool_names == UNION {Range(list_tools_by_capability(reg, capabilities[i])) :
                             i \in DOMAIN capabilities}
  IN {DictGet(reg.tools, name) : name \in {n \in tool_names : DictHas(reg.tools, n)}}

\* ToolRegistry.get_all_capabilities
get_all_capabilities(reg) == DictKeys(reg.capability_index)

\* ToolRegistry.get_all_domains
get_all_domains(reg) == DictKeys(reg.domain_index)

\* ToolRegistry.get_all_tools
get_all_tools(reg) == DictValues(reg.tools)

\* The registry built at import of the routes module.
AppRegistry ==
  register(register(EmptyRegistry, CodeGeneratorTool("app")), FileOperationTool("app"))

---------------------------------------------------------------------------
\* MCPServer: JSON-RPC messages, responses and the handlers.

\* JSON-RPC error codes of the server.
INVALID_REQUEST == -32600
METHOD_NOT_FOUND == -32601
INVALID_PARAMS == -32602
INTERNAL_ERROR == -32603
NOT_INITIALIZED == -32002

\* MCPMessage.id: None, or a string.
NoId == [none |-> TRUE, value |-> ""]
Id(v) == [none |-> FALSE, value |-> v]

\* MCPMessage.params: None, a dict, or a JSON value that is not a dict (a
\* non-empty list).  name is "" when the dict has no "name", arguments and
\* capabilities are the empty dict when the dict has none.
NoParams ==
  [kind |-> "none", name |-> "", arguments |-> <<>>, capabilities |-> <<>>]
DictParams(name, arguments, capabilities) ==
  [kind |-> "dict", name |-> name, arguments |-> arguments,
   capabilities |-> capabilities]
ListParams ==
  [kind |-> "list", name |-> "", arguments |-> <<>>, capabilities |-> <<>>]

\* An incoming message: a dict with its id, method ("" when absent) and
\* params, or a JSON value that is not a dict.
Message(id, method, params) ==
  [is_dict |-> TRUE, id |-> id, method |-> method, params |-> params]
NotADictMessage ==
  [is_dict |-> FALSE, id |-> NoId, method |-> "", params |-> NoParams]

\* The result member of a response.
NoPayload == [kind |-> "none", tools |-> <<>>, isError |-> FALSE, content |-> <<>>]
Payload(kind, tools, isError, content) ==
  [kind |-> kind, tools |-> tools, isError |-> isError, content |-> content]

\* MCPServer._success_response
_success_response(id, payload) ==
  [id |-> id, is_error |-> FALSE, code |-> 0, message |-> <<>>, result |-> payload]

\* MCPServer._error_response
_error_response(id, code, message) ==
  [id |-> id, is_error |-> TRUE, code |-> code, message |-> message,
   result |-> NoPayload]

\* What a handler leaves: the server fields, the response (when it did not
\* raise), the tool executes it made and the registry reads it made.
Handled(server, response, executed, reads) ==
  [raised |-> FALSE, server |-> server, response |-> response,
   executed |-> executed, reads |-> reads]
HandlerRaised(server, executed, reads) ==
  [raised |-> TRUE, server |-> server,
   response |-> _error_response(NoId, 0, <<>>),
   executed |-> executed, reads |-> reads]

\* No message handled yet.
NoExchange ==
  [none |-> TRUE, was_initialized |-> FALSE, message |-> NotADictMessage,
   response |-> _error_response(NoId, 0, <<>>), executed |-> <<>>, reads |-> <<>>,
   outcome |-> "return"]

\* MCPServer.__init__
NewServer == [initialized |-> FALSE, client_capabilities |-> <<>>]

\* params.get(...) raises AttributeError when "message.params or {}" is
\* not a dict.
ParamsRaise(message) == message.params.kind = "list"

\* Mutant of _handle_initialize: the handshake flips the flag, so a second
\* initialize takes the server back to uninitialized.
handle_initialize_toggle(server, message) ==
  IF ParamsRaise(message) THEN HandlerRaised(server, <<>>, <<>>)
  ELSE Handled([initialized |-> ~server.initialized,
                client_capabilities |-> message.params.capabilities],
               _success_response(message.id, Payload("server_info", <<>>, FALSE, <<>>)),
               <<>>, <<>>)

\* MCPServer._handle_initialize
_handle_initialize(server, message) ==
  IF ParamsRaise(message) THEN HandlerRaised(server, <<>>, <<>>)
  ELSE Handled([initialized |-> TRUE,
                client_capabilities |-> message.params.capabilities],
               _success_response(message.id, Payload("server_info", <<>>, FALSE, <<>>)),
               <<>>, <<>>)

\* The entry of tools/list for one tool.
Descriptor(tool) ==
  [name |-> tool.name, capabilities |-> tool.capabilities, domain |-> tool.domain]

\* MCPServer._handle_tools_list
_handle_tools_list(server, reg, message) ==
  IF ~server.initialized
  THEN Handled(server,
               _error_response(message.id, NOT_INITIALIZED, <<"Server not initialized">>),
               <<>>, <<>>)
  ELSE LET tools == get_all_tools(reg)
       IN Handled(server,
                  _success_response(message.id,
                    Payload("tools", [i \in DOMAIN tools |-> Descriptor(tools[i])],
                            FALSE, <<>>)),
                  <<>>, <<"get_all_tools">>)

\* Mutant of CallTool: an unknown tool name is answered with a content
\* envelope.
CallTool_unknown_as_envelope(server, reg, message, oc) ==
  IF ParamsRaise(message) THEN HandlerRaised(server, <<>>, <<>>)
  ELSE LET tool_name == message.params.name
           arguments == message.params.arguments
           tool == registry_get_tool(reg, tool_name)
       IN IF tool_name = ""
          THEN Handled(server,
                       _error_response(message.id, INVALID_PARAMS, <<"Missing tool name">>),
                       <<>>, <<>>)
          ELSE IF ~tool.found
          THEN Handled(server,
                       _success_response(message.id,
                         Payload("call", <<>>, TRUE, <<"Tool not found: ", tool_name>>)),
                       <<>>, <<"get_tool">>)
          ELSE IF oc = "return"
          THEN Handled(server,
                       _success_response(message.id,
                         Payload("call", <<>>, FALSE,
                                 <<ToolOutput(tool_name, arguments)>>)),
                       << <<tool_name, arguments>> >>, <<"get_tool">>)
          ELSE Handled(server,
                       _success_response(message.id,
                         Payload("call", <<>>, TRUE, <<ToolErrorText>>)),
                       << <<tool_name, arguments>> >>, <<"get_tool">>)

\* Mutant of CallTool: an exception of execute is answered with a protocol
\* error.
CallTool_raise_as_protocol_error(server, reg, message, oc) ==
  IF ParamsRaise(message) THEN HandlerRaised(server, <<>>, <<>>)
  ELSE LET tool_name == message.params.name
           arguments == message.params.arguments
           tool == registry_get_tool(reg, tool_name)
       IN IF tool_name = ""
          THEN Handled(server,
                       _error_response(message.id, INVALID_PARAMS, <<"Missing tool name">>),
                       <<>>, <<>>)
          ELSE IF ~tool.found
          THEN Handled(server,
                       _error_response(message.id, INVALID_PARAMS,
                                       <<"Tool not found: ", tool_name>>),
                       <<>>, <<"get_tool">>)
          ELSE IF oc = "return"
          THEN Handled(server,
                       _success_response(message.id,
                         Payload("call", <<>>, FALSE,
                                 <<ToolOutput(tool_name, arguments)>>)),
                       << <<tool_name, arguments>> >>, <<"get_tool">>)
          ELSE Handled(server,
                       _error_response(message.id, INTERNAL_ERROR, ToolErrorText),
                       << <<tool_name, arguments>> >>, <<"get_tool">>)

\* The tools/call handler from "params = message.params or {}" on.
CallTool(server, reg, message, oc) ==
  IF ParamsRaise(message) THEN HandlerRaised(server, <<>>, <<>>)
  ELSE LET tool_name == message.params.name
           arguments == message.params.arguments
           tool == registry_get_tool(reg, tool_name)
       IN IF tool_name = ""
          THEN Handled(server,
                       _error_response(message.id, INVALID_PARAMS, <<"Missing tool name">>),
                       <<>>, <<>>)
          ELSE IF ~tool.found
          THEN Handled(server,
                       _error_response(message.id, INVALID_PARAMS,
                                       <<"Tool not found: ", tool_name>>),
                       <<>>, <<"get_tool">>)
          ELSE IF oc = "return"
          THEN Handled(server,
                       _success_response(message.id,
                         Payload("call", <<>>, FALSE,
                                 <<ToolOutput(tool_name, arguments)>>)),
                       << <<tool_name, arguments>> >>, <<"get_tool">>)
          ELSE Handled(server,
                       _success_response(message.id,
                         Payload("call", <<>>, TRUE, <<ToolErrorText>>)),
                       << <<tool_name, arguments>> >>, <<"get_tool">>)

\* Mutant of _handle_tools_call: the initialized test is dropped.
handle_tools_call_uninitialized(server, reg, message, oc) ==
  CallTool(server, reg, message, oc)

\* MCPServer._handle_tools_call; oc is what the tool's execute does.
_handle_tools_call(server, reg, message, oc) ==
  IF ~server.initialized
  THEN Handled(server,
               _error_response(message.id, NOT_INITIALIZED, <<"Server not initialized">>),
               <<>>, <<>>)
  ELSE CallTool(server, reg, message, oc)

\* MCPServer._handle_resources_list
_handle_resources_list(server, message) ==
  Handled(server,
          _success_response(message.id, Payload("resources", <<>>, FALSE, <<>>)),
          <<>>, <<>>)

\* Mutant of Route: a missing method is answered as an unknown method.
Route_missing_method_not_found(server, reg, message, oc) ==
  IF ~message.is_dict THEN HandlerRaised(server, <<>>, <<>>)
  ELSE IF message.method = ""
  THEN Handled(server,
               _error_response(message.id, METHOD_NOT_FOUND,
                               <<"Invalid Request: method required">>),
               <<>>, <<>>)
  ELSE CASE message.method = "initialize" -> _handle_initialize(server, message)
         [] message.method = "tools/list" -> _handle_tools_list(server, reg, message)
         [] message.method = "tools/call" -> _handle_tools_call(server, reg, message, oc)
         [] message.method = "resources/list" -> _handle_resources_list(server, message)
         [] message.method = "ping" ->
              Handled(server,
                      _success_response(message.id, Payload("pong", <<>>, FALSE, <<>>)),
                      <<>>, <<>>)
         [] OTHER ->
              Handled(server,
                      _error_response(message.id, METHOD_NOT_FOUND,
                                      <<"Method not found: ", message.method>>),
                      <<>>, <<>>)

\* The routing of handle_message, inside its try.
Route(server, reg, message, oc) ==
  IF ~message.is_dict THEN HandlerRaised(server, <<>>, <<>>)
  ELSE IF message.method = ""
  THEN Handled(server,
               _error_response(message.id, INVALID_REQUEST,
                               <<"Invalid Request: method required">>),
               <<>>, <<>>)
  ELSE CASE message.method = "initialize" -> _handle_initialize(server, message)
         [] message.method = "tools/list" -> _handle_tools_list(server, reg, message)
         [] message.method = "tools/call" -> _handle_tools_call(server, reg, message, oc)
         [] message.method = "resources/list" -> _handle_resources_list(server, message)
         [] message.method = "ping" ->
              Handled(server,
                      _success_response(message.id, Payload("pong", <<>>, FALSE, <<>>)),
                      <<>>, <<>>)
         [] OTHER ->
              Handled(server,
                      _error_response(message.id, METHOD_NOT_FOUND,
                                      <<"Method not found: ", message.method>>),
                      <<>>, <<>>)

\* MCPServer.handle_message: an exception of the routing becomes the
\* internal error response, which carries no id.
handle_message(server, reg, message, oc) ==
  LET h == Route(server, reg, message, oc)
  IN IF h.raised
     THEN Handled(h.server,
                  _error_response(NoId, INTERNAL_ERROR, <<"Internal error: ">>),
                  h.executed, h.reads)
     ELSE h

\* The messages sent to the server.
MessageIds == {NoId, Id("1")}
Methods ==
  {"", "initialize", "tools/list", "tools/call", "resources/list", "ping",
   "shutdown"}
ParamsValues ==
  {NoParams, ListParams,
   DictParams("", <<>>, << <<"sampling", "on">> >>),
   DictParams("code_generator", [language |-> "dart", specification |-> "s"], <<>>),
   DictParams("code_generator", [language |-> "cobol", specification |-> "s"], <<>>),
   DictParams("ghost_tool", <<>>, <<>>),
   DictParams("", [operation |-> "read", path |-> "p"], <<>>)}
Messages ==
  {Message(id, method, params) :
     id \in MessageIds, method \in Methods, params \in ParamsValues}
  \cup {NotADictMessage}

\* What execute of the called tool does: it returns or it raises.
CallOutcomes == {"return", "raise"}

---------------------------------------------------------------------------
\* SupervisorAgent: worker classification, decomposition and the readiness
\* loop.  Task descriptions and keywords are sequences of characters.

\* AgentType
CODING == "coding"
RESEARCH == "research"
TESTING == "testing"
GENERAL == "general"

\* The keywords table of analyze_task_complexity, in the order of the dict.
Keywords ==
  << <<CODING,
        << <<"c","o","d","e">>,
          <<"i","m","p","l","e","m","e","n","t">>,
          <<"f","u","n","c","t","i","o","n">>,
          <<"c","l","a","s","s">>,
          <<"a","p","i">>,
          <<"b","u","g">>,
          <<"f","i","x">> >> >>,
     <<RESEARCH,
        << <<"r","e","s","e","a","r","c","h">>,
          <<"f","i","n","d">>,
          <<"a","n","a","l","y","z","e">>,
          <<"i","n","v","e","s","t","i","g","a","t","e">>,
          <<"d","o","c","u","m","e","n","t">> >> >>,
     <<TESTING,
        << <<"t","e","s","t">>,
          <<"v","e","r","i","f","y">>,
          <<"v","a","l","i","d","a","t","e">>,
          <<"q","a">>,
          <<"q","u","a","l","i","t","y">> >> >> >>

\* The task descriptions submitted to the supervisor.
TaskHello == <<"h","e","l","l","o">>
TaskFix == <<"F","i","x"," ","i","t">>
TaskFind == <<"F","I","N","D">>
TaskQA == <<"Q","A">>
TaskLatest == <<"l","a","t","e","s","t">>
TaskFindApi == <<"F","i","n","d"," ","A","P","I">>
TaskFixQa == <<"f","i","x"," ","q","a">>
TaskFindQa == <<"f","i","n","d"," ","q","a">>
TaskFindApiQa == <<"f","i","n","d"," ","a","p","i"," ","q","a">>
TaskEmpty == <<>>
Tasks ==
  {TaskHello, TaskFix, TaskFind, TaskQA, TaskLatest,
   TaskFindApi, TaskFixQa, TaskFindQa, TaskFindApiQa, TaskEmpty}

\* any(kw in task.lower() for kw in keywords_list)
AnyKeyword(keywords_list, task) ==
  \E k \in DOMAIN keywords_list : Contains(keywords_list[k], Lower(task))

\* The loop of analyze_task_complexity over the table, from its i-th entry.
RECURSIVE MatchFrom(_, _, _)
MatchFrom(task, i, required_agents) ==
  IF i > Len(Keywords) THEN required_agents
  ELSE MatchFrom(task, i + 1,
                 IF AnyKeyword(Keywords[i][2], task)
                 THEN Append(required_agents, Keywords[i][1])
                 ELSE required_agents)

\* Mutant of analyze_task_complexity: the first matching type only.
analyze_task_complexity_first_match(task) ==
  LET matched == MatchFrom(task, 1, <<>>)
      required_agents == IF matched = <<>> THEN <<GENERAL>> ELSE <<matched[1]>>
  IN [complexity_score |-> Len(required_agents),
      needs_coordination |-> Len(required_agents) > 1,
      required_agents |-> required_agents,
      recommended_approach |->
        IF Len(required_agents) > 1 THEN "multi_agent" ELSE "single_agent"]

\* SupervisorAgent.analyze_task_complexity
analyze_task_complexity(task) ==
  LET matched == MatchFrom(task, 1, <<>>)
      required_agents == IF matched = <<>> THEN <<GENERAL>> ELSE matched
      complexity_score == Len(required_agents)
      needs_coordination == complexity_score > 1
  IN [complexity_score |-> complexity_score,
      needs_coordination |-> needs_coordination,
      required_agents |-> required_agents,
      recommended_approach |->
        IF needs_coordination THEN "multi_agent" ELSE "single_agent"]

\* TaskAssignment.result: None, or the dict the dispatch builds.
NoSubtaskResult ==
  [none |-> TRUE, agent |-> "", task_id |-> "", description |-> <<>>,
   status |-> "", output |-> <<>>]
SubtaskResult(assignment) ==
  [none |-> FALSE, agent |-> assignment.agent_type,
   task_id |-> assignment.task_id, description |-> assignment.task_description,
   status |-> "completed",
   output |-> <<"Result from ", assignment.agent_type, " agent">>]

\* TaskAssignment, with result None and status "pending".
TaskAssignment(task_id, agent_type, task_description, dependencies) ==
  [task_id |-> task_id, agent_type |-> agent_type,
   task_description |-> task_description, dependencies |-> dependencies,
   result |-> NoSubtaskResult, status |-> "pending"]

\* The three templated assignments of decompose_task, then the fallback.
DecomposeWith(task, required_agents, research_deps, coding_deps, testing_deps) ==
  LET has(a) == a \in Range(required_agents)
      assignments ==
        (IF has(RESEARCH)
         THEN <<TaskAssignment("research_001", RESEARCH,
                               <<"Research requirements for: ">> \o task,
                               research_deps)>>
         ELSE <<>>)
        \o (IF has(CODING)
            THEN <<TaskAssignment("coding_001", CODING,
                                  <<"Implement solution for: ">> \o task,
                                  coding_deps)>>
            ELSE <<>>)
        \o (IF has(TESTING)
            THEN <<TaskAssignment("testing_001", TESTING,
                                  <<"Test and validate solution for: ">> \o task,
                                  testing_deps)>>
            ELSE <<>>)
  IN IF assignments = <<>>
     THEN <<TaskAssignment("general_001", GENERAL, task, <<>>)>>
     ELSE assignments

\* Mutant of decompose_task: coding waits for testing when testing is
\* required, a dependency on a later assignment.
decompose_task_forward_dependency(task, required_agents) ==
  DecomposeWith(task, required_agents, <<>>,
    IF TESTING \in Range(required_agents) THEN <<"testing_001">> ELSE <<>>,
    IF CODING \in Range(required_agents) THEN <<"coding_001">> ELSE <<>>)

\* Mutant of decompose_task: research waits for coding and coding for
\* research.
decompose_task_cyclic(task, required_agents) ==
  DecomposeWith(task, required_agents,
    IF CODING \in Range(required_agents) THEN <<"coding_001">> ELSE <<>>,
    IF RESEARCH \in Range(required_agents) THEN <<"research_001">> ELSE <<>>,
    IF CODING \in Range(required_agents) THEN <<"coding_001">> ELSE <<>>)

\* SupervisorAgent.decompose_task
decompose_task(task, required_agents) ==
  DecomposeWith(task, required_agents, <<>>,
    IF RESEARCH \in Range(required_agents) THEN <<"research_001">> ELSE <<>>,
    IF CODING \in Range(required_agents) THEN <<"coding_001">> ELSE <<>>)

\* analysis, before analyze_task_complexity has returned.
NoAnalysis ==
  [complexity_score |-> 0, needs_coordination |-> FALSE,
   required_agents |-> <<>>, recommended_approach |-> ""]

\* SupervisorAgent._aggregate_results: the count and one line per result.
_aggregate_results(results) ==
  [count |-> Len(results),
   lines |-> [i \in DOMAIN results |->
                <<results[i].agent, results[i].description>>]]

\* What execute_coordinated_task returns: nothing yet, the single agent
\* answer, or the aggregated result.
NoSupervisorResponse ==
  [none |-> TRUE, approach |-> "", total_agents |-> 0, agents_used |-> <<>>,
   subtasks_completed |-> 0, results |-> <<>>,
   final_output |-> _aggregate_results(<<>>), analysis |-> NoAnalysis]
SingleAgentResponse(analysis) ==
  [none |-> FALSE, approach |-> "single_agent", total_agents |-> 0,
   agents_used |-> <<>>, subtasks_completed |-> 0, results |-> <<>>,
   final_output |-> _aggregate_results(<<>>), analysis |-> analysis]
AggregatedResponse(analysis, results) ==
  [none |-> FALSE, approach |-> "multi_agent",
   total_agents |-> Len(analysis.required_agents),
   agents_used |-> analysis.required_agents,
   subtasks_completed |-> Len(results), results |-> results,
   final_output |-> _aggregate_results(results), analysis |-> analysis]

\* No direct call of decompose_task made yet.
NoDecomposition == [none |-> TRUE, required_agents |-> <<>>, assignments |-> <<>>]

\* SupervisorAgent.__init__, and the locals of execute_coordinated_task
\* before a call.  dispatched, pass_completed, graph_before and decomposed
\* are history.
NewSupervisor ==
  [pc |-> "idle", task |-> <<>>, analysis |-> NoAnalysis, assignments |-> <<>>,
   task_graph |-> <<>>, results |-> <<>>, completed_tasks |-> {}, i |-> 1,
   response |-> NoSupervisorResponse, dispatched |-> <<>>,
   pass_completed |-> 0, graph_before |-> <<>>, decomposed |-> NoDecomposition]

\* all(dep in completed_tasks for dep in assignment.dependencies)
deps_met(assignment, completed_tasks) ==
  \A k \in DOMAIN assignment.dependencies :
    assignment.dependencies[k] \in completed_tasks

---------------------------------------------------------------------------
\* The status route.  task_results is the module's dict from task id to
\* AgentResult; the model follows one task, so the dict holds the record of
\* TaskId and of no other id.

\* The uuid create_task stored the task's record under.
TaskId == "task-1"

\* An id create_task never issued.
UnknownTaskId == "task-0"

TaskIds == {TaskId, UnknownTaskId}

\* Optional[int]
NoCount == [none |-> TRUE, value |-> 0]
Count_(n) == [none |-> FALSE, value |-> n]

\* len([r for r in rs if r.status == ExecutionStatus.COMPLETED]), from
\* position k on.
RECURSIVE CompletedStepsFrom(_, _)
CompletedStepsFrom(rs, k) ==
  IF k > Len(rs) THEN 0
  ELSE (IF rs[k].status = COMPLETED THEN 1 ELSE 0)
       + CompletedStepsFrom(rs, k + 1)

\* TaskStatusResponse built from a record.  task_description, started_at and
\* completed_at are copied from the record in the same way; the model's
\* record does not carry them.
TaskStatusResponse(task_id, record) ==
  [outcome |-> "return",
   task_id |-> task_id,
   status |-> record.status,
   step_count |-> IF record.plan.none THEN NoCount
                  ELSE Count_(Len(record.plan.steps)),
   completed_steps |-> Count_(CompletedStepsFrom(record.step_results, 1)),
   final_output |-> record.final_output,
   error_message |-> record.error_message]

\* raise HTTPException(status_code=404, detail="Task not found")
TaskNotFound ==
  [outcome |-> "HTTPException", status_code |-> 404,
   detail |-> "Task not found"]

\* Mutant of get_task_status: a consuming read, the record's final_output is
\* handed out once and dropped from the store.
get_task_status_consuming(record, task_id) ==
  IF task_id # TaskId
  THEN [response |-> TaskNotFound, task_results |-> record]
  ELSE [response |-> TaskStatusResponse(task_id, record),
        task_results |-> [record EXCEPT !.final_output = NoOutput]]

\* get_task_status(task_id) with record stored under TaskId: the response,
\* and the stored record the call leaves behind.
get_task_status(record, task_id) ==
  IF task_id # TaskId
  THEN [response |-> TaskNotFound, task_results |-> record]
  ELSE [response |-> TaskStatusResponse(task_id, record),
        task_results |-> record]

\* A get_task_status call as the history keeps it: the id asked for, the
\* stored record before and after the call, and the response.
NoStatusCall ==
  [none |-> TRUE, task_id |-> UnknownTaskId, before |-> <<>>, after |-> <<>>,
   response |-> TaskNotFound]

StatusCall(task_id, before, call) ==
  [none |-> FALSE, task_id |-> task_id, before |-> before,
   after |-> call.task_results, response |-> call.response]

\* No get_task_status call made yet.
NoStatusCalls == [cur |-> NoStatusCall, prev |-> NoStatusCall]

---------------------------------------------------------------------------
\* The routes with the supervisor: POST /agent/task runs
\* _execute_task_background, POST /agent/multi-agent/task runs
\* _execute_multi_agent_background.

\* The background run of an accepted task: the endpoint that accepted it,
\* context.get("use_multi_agent", True), the task text, and where the run
\* stands.
BackgroundRun(pc_, endpoint, use_multi_agent, task) ==
  [pc |-> pc_, endpoint |-> endpoint, use_multi_agent |-> use_multi_agent,
   task |-> task]

\* No task accepted by these routes.
NoRoute == BackgroundRun("none", "task", TRUE, <<>>)

\* The run awaits supervisor_agent.execute_coordinated_task: always under
\* the multi-agent endpoint, and under the task endpoint when multi-agent
\* use is on and the analysis asks for coordination.
UsesSupervisor(r) ==
  \/ r.endpoint = "multi"
  \/ r.use_multi_agent /\ analyze_task_complexity(r.task).needs_coordination

\* result_data, the dict execute_coordinated_task returned, as the pairs
\* of the final_output it is stored under.
ResultData(response) ==
  IF response.approach = "single_agent"
  THEN DictOutput(<< <<"approach", response.approach>>,
                     <<"analysis", response.analysis>> >>)
  ELSE DictOutput(<< <<"approach", response.approach>>,
                     <<"total_agents", response.total_agents>>,
                     <<"agents_used", response.agents_used>>,
                     <<"subtasks_completed", response.subtasks_completed>>,
                     <<"results", response.results>>,
                     <<"final_output", response.final_output>>,
                     <<"analysis", response.analysis>> >>)

\* Mutant of StoreCoordinatedResult: the output is stored, the status is
\* left as it was.
StoreCoordinatedResult_status_kept(record, response) ==
  [record EXCEPT !.final_output = ResultData(response)]

\* The stored record after the coordinated call returned: status COMPLETED
\* and the returned dict as final_output.
StoreCoordinatedResult(record, response) ==
  [record EXCEPT !.status = COMPLETED, !.final_output = ResultData(response)]

\* The stored record after the except branch of a background function.
StoreBackgroundError(record, text) ==
  [record EXCEPT !.status = FAILED, !.error_message = Text(text)]

\* No task accepted for the concurrent runs.
NoApp == [task_graph |-> "none", task_results |-> <<>>, run |-> <<>>,
          actor |-> "none"]

---------------------------------------------------------------------------
VARIABLES
  max_replan_attempts,  \* PlanExecuteAgent.max_replan_attempts
  pc,                   \* where the background run of the task stands
  result,               \* the AgentResult execute_task builds and returns
  plan,                 \* execute_task's local plan
  replan_count,         \* execute_task's local replan_count
  step_results,         \* execute_task's local step_results (last attempt)
  results,              \* _execute_plan's local results
  idx,                  \* position of _execute_plan's loop in plan.steps
  verification,         \* execute_task's local verification
  task_results,         \* routes: the stored record of the task
  llm_calls,            \* history: inference calls made by verification
  invoked,              \* history: (step, tool) executes of the current attempt
  cancelled,            \* history: executes the step timeout cancelled, current attempt
  cycles,               \* history: execute/verify cycles run
  raised,               \* history: the phase whose awaited call raised
  cancel_requested,     \* an external cancellation signal was raised
  registry,             \* a ToolRegistry: _tools, _capability_index, _domain_index
  reg_log,              \* history: the register and unregister calls made on it
  mcp,                  \* the MCPServer: initialized, client_capabilities
  mcp_last,             \* history: the last message handled and its response
  sup,                  \* the SupervisorAgent and its execute_coordinated_task
  status_log,           \* history: the last two get_task_status calls
  route,                \* the background run of the task under the coordinating routes
  app                   \* two tasks run concurrently: stored records, runs, task_graph

vars ==
  <<max_replan_attempts, pc, result, plan, replan_count, step_results, results,
    idx, verification, task_results, llm_calls, invoked, cancelled, cycles, raised,
    cancel_requested, registry, reg_log, mcp, mcp_last, sup, status_log, route, app>>

\* The variables of the registry, of the protocol server, of the
\* supervisor and of the status route.
restVars == <<registry, reg_log, mcp, mcp_last, sup, status_log, route, app>>

\* AgentResult
AgentResult(status, p, srs, final_output, error_message, rc) ==
  [status |-> status, plan |-> p, step_results |-> srs,
   final_output |-> final_output, error_message |-> error_message,
   replan_count |-> rc]

\* Before execute_task is called there is no AgentResult of the run.
NoResult == AgentResult("none", NoPlan, <<>>, NoOutput, NoText, 0)

NoVerification ==
  [result |-> "none", reasoning |-> <<>>, task_complete |-> FALSE,
   should_replan |-> FALSE]

TerminalStatus == {COMPLETED, FAILED, CANCELLED}

\* The state once POST /agent/task has stored the PENDING record and queued
\* the background run; the agent is configured with max_replan_attempts.
InitWith(maxes) ==
  /\ max_replan_attempts \in maxes
  /\ pc = "pending"
  /\ result = NoResult
  /\ plan = NoPlan
  /\ replan_count = 0
  /\ step_results = <<>>
  /\ results = <<>>
  /\ idx = 1
  /\ verification = NoVerification
  /\ task_results = AgentResult(PENDING, NoPlan, <<>>, NoOutput, NoText, 0)
  /\ llm_calls = 0
  /\ invoked = <<>>
  /\ cancelled = <<>>
  /\ cycles = 0
  /\ raised = "none"
  /\ cancel_requested = FALSE

\* A protocol server as constructed, no message handled.
InitServer ==
  /\ mcp = NewServer
  /\ mcp_last = NoExchange

\* The task of the routes module: its registry is the one built at import.
Init ==
  /\ InitWith(0..MaxReplanBound)
  /\ registry = AppRegistry
  /\ reg_log = <<>>
  /\ InitServer
  /\ sup = NewSupervisor
  /\ status_log = NoStatusCalls
  /\ route = NoRoute
  /\ app = NoApp

\* Mutant of ExceptionHandler: the status is left as it was.
ExceptionHandler_status_kept(r, e) ==
  [r EXCEPT !.error_message = Text(e)]

\* except Exception as e, in execute_task
ExceptionHandler(r, e) ==
  [r EXCEPT !.status = FAILED, !.error_message = Text(e)]

\* _execute_task_background: the agent is created and execute_task builds
\* its AgentResult.
StartTask ==
  /\ pc = "pending"
  /\ result' = AgentResult(PLANNING, NoPlan, <<>>, NoOutput, NoText, 0)
  /\ pc' = "create_plan"
  /\ UNCHANGED <<max_replan_attempts, plan, replan_count, step_results, results,
                 idx, verification, task_results, llm_calls, invoked, cancelled, cycles,
                 raised, cancel_requested>>
  /\ UNCHANGED restVars

\* _execute_task_background: creating the agent raises.
BackgroundError ==
  /\ pc = "pending"
  /\ task_results' = [task_results EXCEPT
                        !.status = FAILED,
                        !.error_message = Text(ExceptionText("create_agent"))]
  /\ raised' = "create_agent"
  /\ pc' = "done"
  /\ UNCHANGED <<max_replan_attempts, result, plan, replan_count, step_results,
                 results, idx, verification, llm_calls, invoked, cancelled, cycles,
                 cancel_requested>>
  /\ UNCHANGED restVars

\* Phase 1: _create_plan returns a plan.
CreatePlan ==
  /\ pc = "create_plan"
  /\ \E p \in Plans :
       /\ plan' = SomePlan(p)
       /\ result' = [result EXCEPT !.plan = SomePlan(p)]
  /\ replan_count' = 0
  /\ pc' = "loop"
  /\ UNCHANGED <<max_replan_attempts, step_results, results, idx, verification,
                 task_results, llm_calls, invoked, cancelled, cycles, raised,
                 cancel_requested>>
  /\ UNCHANGED restVars

\* Phase 1: _create_plan raises.
CreatePlanRaises ==
  /\ pc = "create_plan"
  /\ result' = ExceptionHandler(result, ExceptionText("planning"))
  /\ raised' = "planning"
  /\ pc' = "return"
  /\ UNCHANGED <<max_replan_attempts, plan, replan_count, step_results, results,
                 idx, verification, task_results, llm_calls, invoked, cancelled, cycles,
                 cancel_requested>>
  /\ UNCHANGED restVars

\* The while test; entering the body sets EXECUTING and calls _execute_plan.
LoopTest ==
  /\ pc = "loop"
  /\ IF LoopCondition(replan_count, max_replan_attempts)
     THEN /\ result' = [result EXCEPT !.status = EXECUTING]
          /\ results' = <<>>
          /\ idx' = 1
          /\ invoked' = <<>>
          /\ cancelled' = <<>>
          /\ pc' = "execute_plan"
     ELSE /\ pc' = "return"
          /\ UNCHANGED <<result, results, idx, invoked, cancelled>>
  /\ UNCHANGED <<max_replan_attempts, plan, replan_count, step_results,
                 verification, task_results, llm_calls, cycles, raised,
                 cancel_requested>>
  /\ UNCHANGED restVars

\* Mutant of ExecuteStep: the dependency check reads the results of every
\* attempt, not those of the current one.
ExecuteStep_cumulative_dependencies ==
  /\ pc = "execute_plan"
  /\ idx <= Len(plan.steps)
  /\ LET step == plan.steps[idx]
     IN \E oc \in [1..Len(step.required_tools) -> ExecOutcomes] :
          LET it == ExecutePlanIteration(step, result.step_results \o results, oc)
          IN /\ results' = Append(results, it.results[Len(it.results)])
             /\ invoked' = invoked \o it.calls
             /\ cancelled' = cancelled \o it.cancelled
  /\ idx' = idx + 1
  /\ UNCHANGED <<max_replan_attempts, pc, result, plan, replan_count,
                 step_results, verification, task_results, llm_calls, cycles,
                 raised, cancel_requested>>
  /\ UNCHANGED restVars

\* _execute_plan: one iteration of for step in plan.steps.
ExecuteStep ==
  /\ pc = "execute_plan"
  /\ idx <= Len(plan.steps)
  /\ LET step == plan.steps[idx]
     IN \E oc \in [1..Len(step.required_tools) -> ExecOutcomes] :
          LET it == ExecutePlanIteration(step, results, oc)
          IN /\ results' = it.results
             /\ invoked' = invoked \o it.calls
             /\ cancelled' = cancelled \o it.cancelled
  /\ idx' = idx + 1
  /\ UNCHANGED <<max_replan_attempts, pc, result, plan, replan_count,
                 step_results, verification, task_results, llm_calls, cycles,
                 raised, cancel_requested>>
  /\ UNCHANGED restVars

\* _execute_plan returns; the record is extended and VERIFYING is set.
ReturnExecutePlan ==
  /\ pc = "execute_plan"
  /\ idx > Len(plan.steps)
  /\ step_results' = results
  /\ result' = [result EXCEPT !.step_results = @ \o results,
                              !.status = VERIFYING]
  /\ pc' = "verify"
  /\ UNCHANGED <<max_replan_attempts, plan, replan_count, results, idx,
                 verification, task_results, llm_calls, invoked, cancelled, cycles, raised,
                 cancel_requested>>
  /\ UNCHANGED restVars

\* Phase 3: _verify_execution returns, with an inference call only when
\* every result is completed.
Verify ==
  /\ pc = "verify"
  /\ IF ~AllCompleted(step_results)
     THEN /\ verification' = _verify_execution(step_results, <<>>)
          /\ UNCHANGED llm_calls
     ELSE /\ \E response \in Responses :
               verification' = _verify_execution(step_results, response)
          /\ llm_calls' = llm_calls + 1
  /\ cycles' = cycles + 1
  /\ pc' = "decide"
  /\ UNCHANGED <<max_replan_attempts, result, plan, replan_count, step_results,
                 results, idx, task_results, invoked, cancelled, raised, cancel_requested>>
  /\ UNCHANGED restVars

\* Phase 3: the inference call of _verify_execution raises.
VerifyRaises ==
  /\ pc = "verify"
  /\ AllCompleted(step_results)
  /\ llm_calls' = llm_calls + 1
  /\ cycles' = cycles + 1
  /\ result' = ExceptionHandler(result, ExceptionText("verifying"))
  /\ raised' = "verifying"
  /\ pc' = "return"
  /\ UNCHANGED <<max_replan_attempts, plan, replan_count, step_results, results,
                 idx, verification, task_results, invoked, cancelled, cancel_requested>>
  /\ UNCHANGED restVars

\* Mutant of Complete: the break is missing, the loop goes on.
Complete_no_break ==
  /\ pc = "decide"
  /\ Decision(verification, replan_count, max_replan_attempts) = "complete"
  /\ result' = [result EXCEPT
                  !.status = COMPLETED,
                  !.final_output = _extract_final_output(step_results)]
  /\ pc' = "loop"
  /\ UNCHANGED <<max_replan_attempts, plan, replan_count, step_results, results,
                 idx, verification, task_results, llm_calls, invoked, cancelled, cycles,
                 raised, cancel_requested>>
  /\ UNCHANGED restVars

\* if verification.task_complete: COMPLETED, final output, break.
Complete ==
  /\ pc = "decide"
  /\ Decision(verification, replan_count, max_replan_attempts) = "complete"
  /\ result' = [result EXCEPT
                  !.status = COMPLETED,
                  !.final_output = _extract_final_output(step_results)]
  /\ pc' = "return"
  /\ UNCHANGED <<max_replan_attempts, plan, replan_count, step_results, results,
                 idx, verification, task_results, llm_calls, invoked, cancelled, cycles,
                 raised, cancel_requested>>
  /\ UNCHANGED restVars

\* elif should_replan and replan_count < max: REPLANNING, count, _replan
\* is awaited.
StartReplan ==
  /\ pc = "decide"
  /\ Decision(verification, replan_count, max_replan_attempts) = "replan"
  /\ replan_count' = replan_count + 1
  /\ result' = [result EXCEPT !.status = REPLANNING,
                              !.replan_count = replan_count + 1]
  /\ pc' = "replan"
  /\ UNCHANGED <<max_replan_attempts, plan, step_results, results, idx,
                 verification, task_results, llm_calls, invoked, cancelled, cycles, raised,
                 cancel_requested>>
  /\ UNCHANGED restVars

\* else: FAILED with the verification's reasoning, break.
Fail ==
  /\ pc = "decide"
  /\ Decision(verification, replan_count, max_replan_attempts) = "fail"
  /\ result' = [result EXCEPT
                  !.status = FAILED,
                  !.error_message = Text(verification.reasoning)]
  /\ pc' = "return"
  /\ UNCHANGED <<max_replan_attempts, plan, replan_count, step_results, results,
                 idx, verification, task_results, llm_calls, invoked, cancelled, cycles,
                 raised, cancel_requested>>
  /\ UNCHANGED restVars

\* Phase 4: _replan returns the new plan; back to the while test.
ReplanReturns ==
  /\ pc = "replan"
  /\ plan' = _replan(plan)
  /\ result' = [result EXCEPT !.plan = _replan(plan)]
  /\ pc' = "loop"
  /\ UNCHANGED <<max_replan_attempts, replan_count, step_results, results, idx,
                 verification, task_results, llm_calls, invoked, cancelled, cycles, raised,
                 cancel_requested>>
  /\ UNCHANGED restVars

\* Phase 4: _replan raises.
ReplanRaises ==
  /\ pc = "replan"
  /\ result' = ExceptionHandler(result, ExceptionText("replanning"))
  /\ raised' = "replanning"
  /\ pc' = "return"
  /\ UNCHANGED <<max_replan_attempts, plan, replan_count, step_results, results,
                 idx, verification, task_results, llm_calls, invoked, cancelled, cycles,
                 cancel_requested>>
  /\ UNCHANGED restVars

\* execute_task returns result; the background run stores it.
Return ==
  /\ pc = "return"
  /\ task_results' = result
  /\ pc' = "done"
  /\ UNCHANGED <<max_replan_attempts, result, plan, replan_count, step_results,
                 results, idx, verification, llm_calls, invoked, cancelled, cycles, raised,
                 cancel_requested>>
  /\ UNCHANGED restVars

Next ==
  \/ StartTask
  \/ BackgroundError
  \/ CreatePlan
  \/ CreatePlanRaises
  \/ LoopTest
  \/ ExecuteStep
  \/ ReturnExecutePlan
  \/ Verify
  \/ VerifyRaises
  \/ Complete
  \/ StartReplan
  \/ Fail
  \/ ReplanReturns
  \/ ReplanRaises
  \/ Return

Spec == Init /\ [][Next]_vars

\* The external cancellation signal of a task that is not yet terminal.
RequestCancel ==
  /\ pc # "done"
  /\ \/ pc = "pending"
     \/ result.status \in ExecutionStatus \ TerminalStatus
  /\ ~cancel_requested
  /\ cancel_requested' = TRUE
  /\ UNCHANGED <<max_replan_attempts, pc, result, plan, replan_count,
                 step_results, results, idx, verification, task_results,
                 llm_calls, invoked, cancelled, cycles, raised>>
  /\ UNCHANGED restVars

NextCancel ==
  \/ Next
  \/ RequestCancel

\* The task under an environment that may raise the cancellation signal.
SpecCancel == Init /\ [][NextCancel]_vars

\* The task under a scheduler that keeps running the background coroutine:
\* the event loop resumes it after every await, and wait_for resumes
\* _execute_plan at the step timeout.
FairSpec == Spec /\ WF_vars(Next)

---------------------------------------------------------------------------
\* The task run by an agent constructed with any replan budget: __init__
\* stores max_replan_attempts as given, a negative value included.
InitAnyBudget ==
  /\ InitWith((-1)..MaxReplanBound)
  /\ registry = AppRegistry
  /\ reg_log = <<>>
  /\ InitServer
  /\ sup = NewSupervisor
  /\ status_log = NoStatusCalls
  /\ route = NoRoute
  /\ app = NoApp

SpecAnyBudget == InitAnyBudget /\ [][Next]_vars

---------------------------------------------------------------------------
\* The registry under register and unregister calls.

MaxRegistryOps == 4

\* The tools offered for registration, and the names asked to be removed.
ToolUniverse ==
  {CodeGeneratorTool("g1"), CodeGeneratorTool("g2"), FileOperationTool("f1"),
   OtherGeneratorTool("o1")}
NameUniverse == {"code_generator", "file_operation", "ghost_tool"}

\* One entry of the call history: the call, the registry before it and
\* after it, and what it returned (register returns None).
RegistryCall(op, tool, name, before, after, returned, call_raised) ==
  [op |-> op, tool |-> tool, name |-> name, before |-> before,
   after |-> after, returned |-> returned, raised |-> call_raised]

\* The orchestrator and the protocol server do not move.
agentVars ==
  <<max_replan_attempts, pc, result, plan, replan_count, step_results, results,
    idx, verification, task_results, llm_calls, invoked, cancelled, cycles,
    raised, cancel_requested>>

\* registry.register(tool)
Register ==
  /\ Len(reg_log) < MaxRegistryOps
  /\ \E tool \in ToolUniverse :
       /\ registry' = register(registry, tool)
       /\ reg_log' = Append(reg_log,
            RegistryCall("register", tool, tool.name, registry,
                         register(registry, tool), "None", FALSE))
  /\ UNCHANGED <<agentVars, mcp, mcp_last, sup, status_log, route, app>>

\* registry.unregister(tool_name)
Unregister ==
  /\ Len(reg_log) < MaxRegistryOps
  /\ \E tool_name \in NameUniverse :
       LET u == unregister(registry, tool_name)
       IN /\ registry' = u.registry
          /\ reg_log' = Append(reg_log,
               RegistryCall("unregister", Tool("none", tool_name, <<>>, "none"),
                            tool_name, registry, u.registry,
                            IF u.returned THEN "True" ELSE "False", u.raised))
  /\ UNCHANGED <<agentVars, mcp, mcp_last, sup, status_log, route, app>>

\* A registry as constructed, before any call.
InitRegistry ==
  /\ InitWith({0})
  /\ registry = EmptyRegistry
  /\ reg_log = <<>>
  /\ InitServer
  /\ sup = NewSupervisor
  /\ status_log = NoStatusCalls
  /\ route = NoRoute
  /\ app = NoApp

NextRegistry ==
  \/ Register
  \/ Unregister

SpecRegistry == InitRegistry /\ [][NextRegistry]_vars

---------------------------------------------------------------------------
\* The protocol server under incoming messages.

\* await mcp_server.handle_message(message): the server handles one message
\* and answers it.
HandleMessage ==
  /\ \E message \in Messages : \E oc \in CallOutcomes :
       LET h == handle_message(mcp, registry, message, oc)
       IN /\ mcp' = h.server
          /\ mcp_last' = [none |-> FALSE, was_initialized |-> mcp.initialized,
                          message |-> message, response |-> h.response,
                          executed |-> h.executed, reads |-> h.reads,
                          outcome |-> oc]
  /\ UNCHANGED <<agentVars, registry, reg_log, sup, status_log, route, app>>

\* A server as constructed, over an empty registry or over the registry of
\* the application.
InitMCP ==
  /\ InitWith({0})
  /\ registry \in {EmptyRegistry, AppRegistry}
  /\ reg_log = <<>>
  /\ InitServer
  /\ sup = NewSupervisor
  /\ status_log = NoStatusCalls
  /\ route = NoRoute
  /\ app = NoApp

NextMCP == HandleMessage

SpecMCP == InitMCP /\ [][NextMCP]_vars

---------------------------------------------------------------------------
\* The supervisor under calls of execute_coordinated_task, one at a time:
\* the coroutine has no await that suspends it.

\* The orchestrator, the registry and the protocol server do not move.
nonSupervisorVars ==
  <<agentVars, registry, reg_log, mcp, mcp_last, status_log, route, app>>

\* execute_coordinated_task is called and the task is analyzed.
StartCoordinated ==
  /\ sup.pc \in {"idle", "done"}
  /\ \E task \in Tasks :
       sup' = [sup EXCEPT !.pc = "analyzed", !.task = task,
                          !.analysis = analyze_task_complexity(task),
                          !.response = NoSupervisorResponse,
                          !.dispatched = <<>>, !.pass_completed = 0,
                          !.graph_before = sup.task_graph]
  /\ UNCHANGED nonSupervisorVars

\* if not analysis["needs_coordination"]: return the single agent answer.
ReturnSingleAgent ==
  /\ sup.pc = "analyzed"
  /\ ~sup.analysis.needs_coordination
  /\ sup' = [sup EXCEPT !.pc = "done",
                        !.response = SingleAgentResponse(sup.analysis)]
  /\ UNCHANGED nonSupervisorVars

\* The task is decomposed; self.task_graph and the local assignments are
\* the same list of assignments.
Decompose ==
  /\ sup.pc = "analyzed"
  /\ sup.analysis.needs_coordination
  /\ LET assignments == decompose_task(sup.task, sup.analysis.required_agents)
     IN sup' = [sup EXCEPT !.pc = "while", !.assignments = assignments,
                           !.task_graph = assignments, !.results = <<>>,
                           !.completed_tasks = {}]
  /\ UNCHANGED nonSupervisorVars

\* while len(completed_tasks) < len(assignments): a pass begins, or the
\* results are aggregated and returned.
WhileTest ==
  /\ sup.pc = "while"
  /\ IF Cardinality(sup.completed_tasks) < Len(sup.assignments)
     THEN sup' = [sup EXCEPT !.pc = "for", !.i = 1, !.pass_completed = 0]
     ELSE sup' = [sup EXCEPT !.pc = "done",
                             !.response = AggregatedResponse(sup.analysis, sup.results)]
  /\ UNCHANGED nonSupervisorVars

\* The supervisor after the assignment at position i is dispatched to its
\* worker and marked completed.
Dispatched(s, marked) ==
  LET assignment == s.assignments[s.i]
      done == [assignment EXCEPT !.result = SubtaskResult(assignment),
                                 !.status = "completed"]
      assignments == [s.assignments EXCEPT ![s.i] = done]
  IN [s EXCEPT !.assignments = assignments, !.task_graph = assignments,
               !.completed_tasks = IF marked THEN @ \cup {assignment.task_id} ELSE @,
               !.results = Append(@, done.result),
               !.dispatched = Append(@, assignment.task_id),
               !.pass_completed = @ + 1,
               !.i = @ + 1]

\* Mutant of ForStep: the dependency test is inverted.
ForStep_inverted_dependencies ==
  /\ sup.pc = "for"
  /\ sup.i <= Len(sup.assignments)
  /\ LET assignment == sup.assignments[sup.i]
     IN IF assignment.task_id \in sup.completed_tasks
        THEN sup' = [sup EXCEPT !.i = @ + 1]
        ELSE IF ~deps_met(assignment, sup.completed_tasks)
        THEN sup' = Dispatched(sup, TRUE)
        ELSE sup' = [sup EXCEPT !.i = @ + 1]
  /\ UNCHANGED nonSupervisorVars

\* Mutant of ForStep: a dispatched assignment is not added to
\* completed_tasks.
ForStep_not_marked ==
  /\ sup.pc = "for"
  /\ sup.i <= Len(sup.assignments)
  /\ LET assignment == sup.assignments[sup.i]
     IN IF assignment.task_id \in sup.completed_tasks
        THEN sup' = [sup EXCEPT !.i = @ + 1]
        ELSE IF deps_met(assignment, sup.completed_tasks)
        THEN sup' = Dispatched(sup, FALSE)
        ELSE sup' = [sup EXCEPT !.i = @ + 1]
  /\ UNCHANGED nonSupervisorVars

\* for assignment in assignments: one iteration.
ForStep ==
  /\ sup.pc = "for"
  /\ sup.i <= Len(sup.assignments)
  /\ LET assignment == sup.assignments[sup.i]
     IN IF assignment.task_id \in sup.completed_tasks
        THEN sup' = [sup EXCEPT !.i = @ + 1]
        ELSE IF deps_met(assignment, sup.completed_tasks)
        THEN sup' = Dispatched(sup, TRUE)
        ELSE sup' = [sup EXCEPT !.i = @ + 1]
  /\ UNCHANGED nonSupervisorVars

\* The for loop is exhausted: back to the while test.
EndPass ==
  /\ sup.pc = "for"
  /\ sup.i > Len(sup.assignments)
  /\ sup' = [sup EXCEPT !.pc = "while"]
  /\ UNCHANGED nonSupervisorVars

\* decompose_task called with the worker types matched for a task.
DecomposeCall ==
  /\ sup.pc \in {"idle", "done"}
  /\ \E task \in Tasks :
       LET required_agents == analyze_task_complexity(task).required_agents
       IN sup' = [sup EXCEPT !.decomposed =
                    [none |-> FALSE, required_agents |-> required_agents,
                     assignments |-> decompose_task(task, required_agents)]]
  /\ UNCHANGED nonSupervisorVars

InitSupervisor ==
  /\ InitWith({0})
  /\ registry = AppRegistry
  /\ reg_log = <<>>
  /\ InitServer
  /\ sup = NewSupervisor
  /\ status_log = NoStatusCalls
  /\ route = NoRoute
  /\ app = NoApp

NextSupervisor ==
  \/ StartCoordinated
  \/ ReturnSingleAgent
  \/ Decompose
  \/ WhileTest
  \/ ForStep
  \/ EndPass
  \/ DecomposeCall

SpecSupervisor == InitSupervisor /\ [][NextSupervisor]_vars

\* The supervisor when a call that was started keeps running: the loops of
\* execute_coordinated_task run without suspension.
FairSpecSupervisor ==
  /\ SpecSupervisor
  /\ WF_vars(WhileTest)
  /\ WF_vars(ForStep)
  /\ WF_vars(EndPass)

---------------------------------------------------------------------------
\* The status route polled while the task runs.

\* GET /agent/task/{task_id}
GetTaskStatus ==
  \E task_id \in TaskIds :
    LET call == get_task_status(task_results, task_id) IN
      /\ task_results' = call.task_results
      /\ status_log' = [cur |-> StatusCall(task_id, task_results, call),
                        prev |-> status_log.cur]
      /\ UNCHANGED <<max_replan_attempts, pc, result, plan, replan_count,
                     step_results, results, idx, verification, llm_calls,
                     invoked, cancelled, cycles, raised, cancel_requested>>
      /\ UNCHANGED <<registry, reg_log, mcp, mcp_last, sup, route, app>>

NextStatus ==
  \/ Next
  \/ GetTaskStatus

\* The task under a client that polls its status at any moment.
SpecStatus == Init /\ [][NextStatus]_vars

---------------------------------------------------------------------------
\* An accepted task under the routes with the supervisor.

\* The variables of the orchestrator other than the stored record.
orchestratorVars ==
  <<max_replan_attempts, pc, result, plan, replan_count, step_results, results,
    idx, verification, llm_calls, invoked, cancelled, cycles, raised,
    cancel_requested>>

\* The background function awaits execute_coordinated_task, which analyzes
\* the task.
CallCoordinated ==
  /\ route.pc = "accepted"
  /\ UsesSupervisor(route)
  /\ sup' = [sup EXCEPT !.pc = "analyzed", !.task = route.task,
                        !.analysis = analyze_task_complexity(route.task),
                        !.response = NoSupervisorResponse,
                        !.dispatched = <<>>, !.pass_completed = 0,
                        !.graph_before = sup.task_graph]
  /\ route' = [route EXCEPT !.pc = "coordinating"]
  /\ UNCHANGED <<agentVars, registry, reg_log, mcp, mcp_last, status_log, app>>

\* _execute_task_background falls back to a single agent.
CallSingleAgent ==
  /\ route.pc = "accepted"
  /\ ~UsesSupervisor(route)
  /\ route' = [route EXCEPT !.pc = "single"]
  /\ UNCHANGED <<agentVars, registry, reg_log, mcp, mcp_last, status_log, sup, app>>

\* execute_coordinated_task runs.
CoordinatedStep ==
  /\ route.pc = "coordinating"
  /\ \/ ReturnSingleAgent
     \/ Decompose
     \/ WhileTest
     \/ ForStep
     \/ EndPass

\* execute_coordinated_task returned: the stored record is updated.
StoreCoordinated ==
  /\ route.pc = "coordinating"
  /\ sup.pc = "done"
  /\ task_results' = StoreCoordinatedResult(task_results, sup.response)
  /\ route' = [route EXCEPT !.pc = "done"]
  /\ UNCHANGED <<orchestratorVars, registry, reg_log, mcp, mcp_last,
                 status_log, sup, app>>

\* An exception comes out of the awaited coordinated call: the except
\* branch of the background function.
CoordinatedRaises ==
  /\ route.pc = "coordinating"
  /\ sup.pc # "done"
  /\ task_results' = StoreBackgroundError(
                       task_results, ExceptionText("execute_coordinated_task"))
  /\ route' = [route EXCEPT !.pc = "done"]
  /\ UNCHANGED <<orchestratorVars, registry, reg_log, mcp, mcp_last,
                 status_log, sup, app>>

\* The single agent is created and runs the task.
SingleAgentStep ==
  /\ route.pc = "single"
  /\ Next

\* A task accepted by one of the two endpoints.
InitCoordinatingRoutes ==
  /\ InitWith(0..MaxReplanBound)
  /\ registry = AppRegistry
  /\ reg_log = <<>>
  /\ InitServer
  /\ sup = NewSupervisor
  /\ status_log = NoStatusCalls
  /\ route \in {BackgroundRun("accepted", endpoint, use_multi_agent, task) :
                  endpoint \in {"task", "multi"}, use_multi_agent \in BOOLEAN,
                  task \in Tasks}
  /\ app = NoApp

NextCoordinatingRoutes ==
  \/ CallCoordinated
  \/ CallSingleAgent
  \/ CoordinatedStep
  \/ StoreCoordinated
  \/ CoordinatedRaises
  \/ SingleAgentStep

SpecCoordinatingRoutes ==
  InitCoordinatingRoutes /\ [][NextCoordinatingRoutes]_vars

\* The event loop keeps running the background function of an accepted
\* task.
FairSpecCoordinatingRoutes ==
  SpecCoordinatingRoutes /\ WF_vars(NextCoordinatingRoutes)

---------------------------------------------------------------------------
\* Two accepted tasks whose background functions run concurrently on the
\* event loop.  A step of a task runs up to its next await or loop
\* iteration.  task_results holds the two stored records; supervisor_agent
\* is one object, so self.task_graph is one field, kept as the task whose
\* list of assignments it refers to; run holds the locals of each
\* background function and of its execute_coordinated_task call.

\* The uuid of the second task.
OtherTaskId == "task-2"

ConcurrentTasks == {TaskId, OtherTaskId}

\* The task texts sent: no keyword, two worker types, three worker types.
ConcurrentTexts == {TaskHello, TaskFindApi, TaskFindApiQa}

\* What the awaited single agent hands back for storing, reduced to the
\* status of the record: create_agent_for_task builds a new
\* PlanExecuteAgent for the task and execute_task works on its own record.
SingleAgentRecords ==
  {AgentResult(COMPLETED, SomePlan(PlaceholderPlan), <<>>, NoOutput, NoText, 0),
   AgentResult(FAILED, SomePlan(PlaceholderPlan), <<>>, NoOutput,
               Text(<<"Steps failed: ", "step_1">>), 0)}

\* The locals of one background function: its arguments, its position, and
\* the locals of its execute_coordinated_task call.
ConcurrentRun(endpoint, use_multi_agent, task) ==
  [pc |-> "accepted", endpoint |-> endpoint,
   use_multi_agent |-> use_multi_agent, task |-> task, call |-> NewSupervisor]

\* The application once both tasks are accepted.
AcceptedApps ==
  {[task_graph |-> "none",
    task_results |-> [t \in ConcurrentTasks |->
                        AgentResult(PENDING, NoPlan, <<>>, NoOutput, NoText, 0)],
    run |-> [t \in ConcurrentTasks |->
               IF t = TaskId THEN r1 ELSE r2],
    actor |-> "none"] :
     r1 \in {ConcurrentRun(e, u, x) :
               e \in {"task", "multi"}, u \in BOOLEAN, x \in ConcurrentTexts},
     r2 \in {ConcurrentRun(e, TRUE, x) :
               e \in {"task", "multi"}, x \in ConcurrentTexts}}

\* Mutant of LoopAssignments: the loop walks self.task_graph, the field of
\* the shared supervisor.
LoopAssignments_task_graph(a, t) ==
  IF a.task_graph = "none" THEN <<>>
  ELSE a.run[a.task_graph].call.assignments

\* The list the while test and the for loop of task t's
\* execute_coordinated_task call name assignments: the local of the call.
LoopAssignments(a, t) == a.run[t].call.assignments

\* What no step of a concurrent task assigns.
otherTaskVars ==
  <<agentVars, registry, reg_log, mcp, mcp_last, sup, status_log, route>>

\* Task t's background function awaits execute_coordinated_task, which
\* analyzes the task; or it falls back to the single agent.
ConcurrentStart(t) ==
  /\ app.run[t].pc = "accepted"
  /\ IF UsesSupervisor(app.run[t])
     THEN app' = [app EXCEPT
                    !.run[t].pc = "analyzed",
                    !.run[t].call.task = app.run[t].task,
                    !.run[t].call.analysis = analyze_task_complexity(app.run[t].task),
                    !.actor = t]
     ELSE app' = [app EXCEPT !.run[t].pc = "single", !.actor = t]
  /\ UNCHANGED otherTaskVars

\* The call returns the single agent answer, or decomposes the task and
\* assigns self.task_graph.
ConcurrentDecompose(t) ==
  /\ app.run[t].pc = "analyzed"
  /\ LET c == app.run[t].call
     IN IF ~c.analysis.needs_coordination
        THEN app' = [app EXCEPT
                       !.run[t].pc = "returned",
                       !.run[t].call.response = SingleAgentResponse(c.analysis),
                       !.actor = t]
        ELSE app' = [app EXCEPT
                       !.run[t].pc = "while",
                       !.run[t].call.assignments =
                          decompose_task(c.task, c.analysis.required_agents),
                       !.task_graph = t,
                       !.actor = t]
  /\ UNCHANGED otherTaskVars

\* while len(completed_tasks) < len(assignments)
ConcurrentWhile(t) ==
  /\ app.run[t].pc = "while"
  /\ LET c == app.run[t].call
     IN IF Cardinality(c.completed_tasks) < Len(LoopAssignments(app, t))
        THEN app' = [app EXCEPT !.run[t].pc = "for", !.run[t].call.i = 1,
                                !.actor = t]
        ELSE app' = [app EXCEPT
                       !.run[t].pc = "returned",
                       !.run[t].call.response =
                          AggregatedResponse(c.analysis, c.results),
                       !.actor = t]
  /\ UNCHANGED otherTaskVars

\* for assignment in assignments: one iteration, or the end of the pass.
ConcurrentFor(t) ==
  /\ app.run[t].pc = "for"
  /\ LET c == [app.run[t].call EXCEPT !.assignments = LoopAssignments(app, t)]
     IN IF c.i > Len(c.assignments)
        THEN app' = [app EXCEPT !.run[t].pc = "while", !.actor = t]
        ELSE IF c.assignments[c.i].task_id \in c.completed_tasks
        THEN app' = [app EXCEPT !.run[t].call.i = @ + 1, !.actor = t]
        ELSE IF deps_met(c.assignments[c.i], c.completed_tasks)
        THEN app' = [app EXCEPT !.run[t].call = Dispatched(c, TRUE), !.actor = t]
        ELSE app' = [app EXCEPT !.run[t].call.i = @ + 1, !.actor = t]
  /\ UNCHANGED otherTaskVars

\* The coordinated call returned: task t's stored record is updated.
ConcurrentStore(t) ==
  /\ app.run[t].pc = "returned"
  /\ app' = [app EXCEPT
               !.task_results[t] =
                  StoreCoordinatedResult(@, app.run[t].call.response),
               !.run[t].pc = "done",
               !.actor = t]
  /\ UNCHANGED otherTaskVars

\* The single agent returned its record: it replaces the stored one.
ConcurrentSingleAgent(t) ==
  /\ app.run[t].pc = "single"
  /\ \E record \in SingleAgentRecords :
       app' = [app EXCEPT !.task_results[t] = record, !.run[t].pc = "done",
                          !.actor = t]
  /\ UNCHANGED otherTaskVars

\* An awaited call of task t raises: the except branch of its background
\* function.
ConcurrentRaises(t) ==
  /\ app.run[t].pc \in {"analyzed", "while", "single"}
  /\ app' = [app EXCEPT
               !.task_results[t] =
                  StoreBackgroundError(@, ExceptionText("background")),
               !.run[t].pc = "done",
               !.actor = t]
  /\ UNCHANGED otherTaskVars

InitConcurrent ==
  /\ InitWith({0})
  /\ registry = AppRegistry
  /\ reg_log = <<>>
  /\ InitServer
  /\ sup = NewSupervisor
  /\ status_log = NoStatusCalls
  /\ route = NoRoute
  /\ app \in AcceptedApps

NextConcurrent ==
  \/ \E t \in ConcurrentTasks : ConcurrentStart(t)
  \/ \E t \in ConcurrentTasks : ConcurrentDecompose(t)
  \/ \E t \in ConcurrentTasks : ConcurrentWhile(t)
  \/ \E t \in ConcurrentTasks : ConcurrentFor(t)
  \/ \E t \in ConcurrentTasks : ConcurrentStore(t)
  \/ \E t \in ConcurrentTasks : ConcurrentSingleAgent(t)
  \/ \E t \in ConcurrentTasks : ConcurrentRaises(t)

SpecConcurrent == InitConcurrent /\ [][NextConcurrent]_vars

---------------------------------------------------------------------------
\* Properties of the orchestrator.

Returned == pc \in {"return", "done"}

DependenciesNotSatisfied == Text(<<"Dependencies not satisfied">>)

\* C1: in every reachable state of execute_task, whatever the plan and the
\* verification outcomes, the record's replan_count (and the local counter
\* it copies) is at most max_replan_attempts.
C1_ReplanCountBounded ==
  /\ result.replan_count <= max_replan_attempts
  /\ replan_count <= max_replan_attempts

\* C1 witness: the budget is used up and verification asks to replan again.
C1_Witness ==
  /\ pc = "decide"
  /\ max_replan_attempts >= 1
  /\ result.replan_count = max_replan_attempts
  /\ verification.should_replan

\* C2: a run in which no verification reported task_complete (each one
\* reported should_replan) and nothing raised has run exactly
\* max_replan_attempts + 1 execute/verify cycles when it returns, its status
\* is FAILED and its error message is the last verification's reasoning;
\* before that it never runs more cycles than that.
C2_FailsAfterAllCycles ==
  /\ (raised = "none" /\ result.status # COMPLETED) =>
        cycles <= max_replan_attempts + 1
  /\ (Returned /\ raised = "none" /\ result.status # COMPLETED) =>
        /\ cycles = max_replan_attempts + 1
        /\ result.status = FAILED
        /\ ~verification.task_complete
        /\ verification.should_replan
        /\ result.error_message = Text(verification.reasoning)

\* C2 witness: a task that failed after two replans, the last verification
\* being an inference answer.
C2_Witness ==
  /\ pc = "done"
  /\ raised = "none"
  /\ task_results.status = FAILED
  /\ cycles = 3
  /\ task_results.error_message = Text(PlaceholderResponse)

\* The transitions of the lifecycle status that no exception causes.
LifecycleTransitions ==
  { <<PLANNING, EXECUTING>>, <<EXECUTING, VERIFYING>>, <<VERIFYING, COMPLETED>>,
    <<VERIFYING, REPLANNING>>, <<REPLANNING, EXECUTING>>, <<VERIFYING, FAILED>> }

\* C3: the status of the record execute_task drives starts at PLANNING and
\* changes only along PLANNING -> EXECUTING -> VERIFYING -> COMPLETED,
\* VERIFYING -> REPLANNING -> EXECUTING, VERIFYING -> FAILED, or from a
\* non-terminal status to FAILED in the step where an exception is raised;
\* nothing leaves COMPLETED or FAILED.
C3_LifecycleTransitions ==
  [][ /\ (result.status = "none" /\ result'.status # "none") =>
           result'.status = PLANNING
      /\ (result.status # "none" /\ result'.status # result.status) =>
           \/ <<result.status, result'.status>> \in LifecycleTransitions
           \/ /\ result.status \notin TerminalStatus
              /\ result'.status = FAILED
              /\ raised = "none"
              /\ raised' # "none" ]_vars

\* C3 witness: a task completed after a replan.
C3_Witness ==
  /\ result.status = COMPLETED
  /\ result.replan_count >= 1

\* C4: an exception raised while driving the task (creating the agent,
\* planning, the verification inference call, replanning) resolves the task
\* to FAILED with the exception text as the error message, in the returned
\* record and in the stored one; after a planning failure no plan is made
\* again and no step is executed.
C4_ExceptionFailsTask ==
  /\ raised \in {"planning", "verifying", "replanning"} =>
        /\ Returned
        /\ result.status = FAILED
        /\ result.error_message = Text(ExceptionText(raised))
  /\ (raised # "none" /\ pc = "done") =>
        /\ task_results.status = FAILED
        /\ task_results.error_message = Text(ExceptionText(raised))
  /\ raised = "create_agent" => pc = "done" /\ result = NoResult
  /\ raised \in {"planning", "create_agent"} =>
        /\ plan = NoPlan
        /\ result.plan = NoPlan
        /\ result.step_results = <<>>
        /\ cycles = 0
        /\ invoked = <<>>
        /\ results = <<>>

\* C4 witness: planning failed and the task was stored as failed.
C4_Witness ==
  /\ pc = "done"
  /\ raised = "planning"
  /\ task_results.status = FAILED

\* C5: a cancellation signal raised while the task is not terminal leads
\* the task to CANCELLED (stated on the final result: a task that was
\* signalled, and in which nothing raised, does not end in another status).
C5_CancelLeadsToCancelled ==
  (pc = "done" /\ cancel_requested /\ raised = "none") =>
    task_results.status = CANCELLED

\* Step identifiers of a list of steps / results, in order.
StepIds(steps) == [i \in DOMAIN steps |-> steps[i].id]
ResultIds(rs) == [i \in DOMAIN rs |-> rs[i].step_id]

\* C6: _execute_plan yields exactly one StepResult per step of the plan, in
\* the plan's order, whatever fails: during the loop the results are those
\* of the steps passed, and the returned list matches the whole plan.
C6_OneResultPerStep ==
  /\ pc = "execute_plan" =>
        /\ Len(results) = idx - 1
        /\ ResultIds(results) = SubSeq(StepIds(plan.steps), 1, idx - 1)
  /\ pc \in {"verify", "decide"} =>
        /\ ResultIds(step_results) = StepIds(plan.steps)
        /\ \A i \in DOMAIN step_results :
             step_results[i].status \in {COMPLETED, FAILED}

\* C6 witness: an attempt with a failed step followed by a completed one
\* and a dependency failure.
C6_Witness ==
  /\ pc = "verify"
  /\ Len(step_results) = 3
  /\ step_results[1].status = FAILED
  /\ step_results[2].status = COMPLETED
  /\ step_results[3].error_message = DependenciesNotSatisfied

\* The step identifiers with a completed result among the first n results.
CompletedBefore(rs, n) ==
  {rs[i].step_id : i \in {j \in 1..n : rs[j].status = COMPLETED}}

\* The i-th step of the plan has a dependency without a completed result
\* among the results that precede it.
DependencyUnmet(steps, rs, i) ==
  \E k \in DOMAIN steps[i].dependencies :
    steps[i].dependencies[k] \notin CompletedBefore(rs, i - 1)

\* C7: a step with a dependency that has no completed result in the
\* current attempt is recorded failed with "Dependencies not satisfied" and
\* no tool is executed for it; a step whose dependencies are all completed
\* is not recorded so, and its first required tool, when registered and
\* accepting the parameters, is executed.
C7_UnmetDependencyNotExecuted ==
  pc \in {"execute_plan", "verify"} =>
    \A i \in DOMAIN results :
      LET step == plan.steps[i]
      IN IF DependencyUnmet(plan.steps, results, i)
         THEN /\ results[i].status = FAILED
              /\ results[i].error_message = DependenciesNotSatisfied
              /\ \A c \in Range(invoked) : c[1] # step.id
         ELSE /\ results[i].error_message # DependenciesNotSatisfied
              /\ ( /\ step.required_tools # <<>>
                   /\ get_tool(step.required_tools[1]).found
                   /\ validate_parameters(step.required_tools[1], step.parameters) )
                 => <<step.id, step.required_tools[1]>> \in Range(invoked)

\* C7 witness: a step failed on its dependency and a later independent step
\* was executed and completed.
C7_Witness ==
  /\ pc = "verify"
  /\ Len(results) >= 2
  /\ results[1].error_message = DependenciesNotSatisfied
  /\ results[2].status = COMPLETED
  /\ <<results[2].step_id, "file_operation">> \in Range(invoked)

\* C8: in the plan step1, step2 (depends on step1), step3 (depends on
\* step2), when step1 fails, step2 and step3 are failed with "Dependencies
\* not satisfied" and verification returns should_replan, not
\* task_complete, with the reasoning listing step1, step2, step3.
C8_ChainFailure ==
  ( /\ pc = "decide"
    /\ plan = SomePlan(ChainPlan)
    /\ step_results[1].status = FAILED ) =>
      /\ step_results[2].status = FAILED
      /\ step_results[2].error_message = DependenciesNotSatisfied
      /\ step_results[3].status = FAILED
      /\ step_results[3].error_message = DependenciesNotSatisfied
      /\ verification.should_replan
      /\ ~verification.task_complete
      /\ verification.reasoning =
           <<"Steps failed: ", "step1", ", ", "step2", ", ", "step3">>

\* C8 witness: the chain was verified after step1's tool raised.
C8_Witness ==
  /\ pc = "decide"
  /\ plan = SomePlan(ChainPlan)
  /\ step_results[1].status = FAILED
  /\ step_results[1].error_message = Text(ToolErrorText)

\* The identifiers of the results that are not completed, in order.
RECURSIVE NotCompletedIds(_)
NotCompletedIds(rs) ==
  IF rs = <<>> THEN <<>>
  ELSE (IF Head(rs).status # COMPLETED THEN <<Head(rs).step_id>> ELSE <<>>)
         \o NotCompletedIds(Tail(rs))

\* C9: when a result of the attempt is not completed, verification returns
\* task_complete false and should_replan true, its reasoning names exactly
\* the steps that are not completed, and it makes no inference call;
\* verification calls the inference capability only when every result of
\* the attempt is completed.
C9_VerificationShortCircuit ==
  /\ [] ( ( pc = "decide" /\ \E i \in DOMAIN step_results :
                                step_results[i].status # COMPLETED ) =>
             /\ ~verification.task_complete
             /\ verification.should_replan
             /\ verification.result = VR_FAILED
             /\ verification.reasoning =
                  <<"Steps failed: ">> \o Join(", ", NotCompletedIds(step_results)) )
  /\ [][ llm_calls' # llm_calls =>
           /\ pc = "verify"
           /\ \A i \in DOMAIN step_results : step_results[i].status = COMPLETED ]_vars

\* C9 witness: an attempt with a completed and a failed result was
\* verified without any inference call.
C9_Witness ==
  /\ pc = "decide"
  /\ llm_calls = 0
  /\ \E i, j \in DOMAIN step_results :
       /\ step_results[i].status = COMPLETED
       /\ step_results[j].status = FAILED

\* The output of the newest result that is completed with a non-empty
\* output, None when there is none.
NewestOutput(rs) ==
  LET S == {i \in DOMAIN rs : rs[i].status = COMPLETED /\ Truthy(rs[i].output)}
  IN IF S = {} THEN NoOutput
     ELSE rs[CHOOSE i \in S : \A j \in S : j <= i].output

\* C10: when the task is COMPLETED its final output is the output of the
\* newest StepResult that is completed with a non-empty output, and None
\* when there is none; this holds of the results of the accepted attempt
\* and of the record's cumulative results alike.
C10_FinalOutput ==
  result.status = COMPLETED =>
    /\ result.final_output = NewestOutput(step_results)
    /\ result.final_output = NewestOutput(result.step_results)

\* C10 witness: a completed three-step task whose final output is that of
\* its last step.
C10_Witness ==
  /\ result.status = COMPLETED
  /\ Len(step_results) = 3
  /\ ~result.final_output.none
  /\ result.final_output = step_results[3].output
  /\ result.final_output # step_results[1].output

\* The required tools of a step that the registry does not resolve or whose
\* validate_parameters rejects the step's parameters.
OffendingTools(step) ==
  {k \in DOMAIN step.required_tools :
     \/ ~get_tool(step.required_tools[k]).found
     \/ ~validate_parameters(step.required_tools[k], step.parameters)}

\* C11: every tool execute of the current attempt was made with a tool the
\* registry resolves and with parameters that tool's validate_parameters
\* accepts; a step with a required tool that is not registered or that
\* rejects the parameters has a failed result, and when that tool is the
\* step's first one and the dependencies are met the message names it and
\* nothing was executed for the step.
C11_RejectedParametersNotExecuted ==
  pc \in {"execute_plan", "verify"} =>
    /\ \A c \in Range(invoked) :
         \E i \in DOMAIN plan.steps :
           /\ plan.steps[i].id = c[1]
           /\ get_tool(c[2]).found
           /\ validate_parameters(c[2], plan.steps[i].parameters)
    /\ \A i \in DOMAIN results :
         LET step == plan.steps[i]
         IN OffendingTools(step) # {} =>
              /\ results[i].status = FAILED
              /\ (1 \in OffendingTools(step) /\ ~DependencyUnmet(plan.steps, results, i))
                   => /\ results[i].error_message =
                           IF get_tool(step.required_tools[1]).found
                           THEN Text(<<"Invalid parameters for tool: ", step.required_tools[1]>>)
                           ELSE Text(<<"Tool not found: ", step.required_tools[1]>>)
                      /\ \A c \in Range(invoked) : c[1] # step.id

\* C11 witness: step m1 executed the file tool and was then failed because
\* the code generator rejected the same parameters, and step m2 was failed
\* on the code generator's rejection without any execute.
C11_Witness ==
  /\ pc = "verify"
  /\ Len(results) = 2
  /\ results[1].step_id = "m1"
  /\ results[1].status = FAILED
  /\ results[1].error_message = Text(<<"Invalid parameters for tool: ", "code_generator">>)
  /\ invoked = << <<"m1", "file_operation">> >>
  /\ results[2].error_message = Text(<<"Invalid parameters for tool: ", "code_generator">>)

StepExecutionTimeout == Text(<<"Step execution timeout">>)

\* The steps of the current attempt with an execute cancelled at the step
\* timeout.
TimedOutIds == {c[1] : c \in Range(cancelled)}

\* C12: a step whose execute outlives the step timeout is recorded failed
\* with "Step execution timeout", which no execution exception produces;
\* the execute is cancelled, so nothing of the step runs after it; the
\* iteration that timed out appends the result and moves to the next step;
\* and an attempt that is executing always reaches verification, steps
\* that never return included.
C12_TimeoutRecordedAndAttemptEnds ==
  /\ [](pc \in {"execute_plan", "verify"} =>
          /\ \A i \in DOMAIN results :
               IF results[i].step_id \in TimedOutIds
               THEN /\ results[i].status = FAILED
                    /\ results[i].error_message = StepExecutionTimeout
                    /\ results[i].error_message # Text(ToolErrorText)
               ELSE results[i].error_message # StepExecutionTimeout
          /\ \A k \in DOMAIN cancelled :
               \E j \in DOMAIN invoked :
                 /\ invoked[j] = cancelled[k]
                 /\ \A l \in (j + 1)..Len(invoked) : invoked[l][1] # cancelled[k][1])
  /\ [][(cancelled' # cancelled /\ cancelled' # <<>>) =>
          /\ idx' = idx + 1
          /\ Len(results') = Len(results) + 1
          /\ results'[Len(results')].step_id \in {c[1] : c \in Range(cancelled')}
          /\ pc' = "execute_plan"]_vars
  /\ (pc = "execute_plan" ~> pc = "verify")

\* C12 witness: the first step's execute was cancelled at the timeout, the
\* step is recorded with the timeout message, and the scheduler went on to
\* the second step and finished the attempt.
C12_Witness ==
  /\ pc = "verify"
  /\ Len(results) = 2
  /\ cancelled = << <<"m1", "file_operation">> >>
  /\ results[1].step_id = "m1"
  /\ results[1].status = FAILED
  /\ results[1].error_message = StepExecutionTimeout
  /\ results[2].step_id = "m2"

\* s is a prefix of t.
IsPrefix(s, t) == Len(s) <= Len(t) /\ SubSeq(t, 1, Len(s)) = s

\* C13: in an attempt made after a replan, a step is failed on its
\* dependencies exactly when a dependency has no completed result among
\* the results of that attempt, whatever earlier attempts completed; the
\* record's step_results only grows at its end; and when the task
\* terminates without an exception the record holds, attempt after attempt
\* and in plan order, one result per step for each of the replan_count + 1
\* attempts, the last attempt's results being its tail.
C13_ResultsPerAttempt ==
  /\ []((pc \in {"execute_plan", "verify"} /\ replan_count >= 1) =>
          \A i \in DOMAIN results :
            DependencyUnmet(plan.steps, results, i)
              <=> results[i].error_message = DependenciesNotSatisfied)
  /\ []((Returned /\ raised = "none") =>
          LET n == Len(plan.steps)
          IN /\ Len(result.step_results) = (result.replan_count + 1) * n
             /\ \A a \in 0..result.replan_count : \A i \in 1..n :
                  result.step_results[a * n + i].step_id = plan.steps[i].id
             /\ SubSeq(result.step_results, result.replan_count * n + 1,
                       Len(result.step_results)) = step_results)
  /\ [][(result.status # "none" /\ result'.status # "none") =>
          IsPrefix(result.step_results, result'.step_results)]_vars

\* C13 witness: step1 completed in the first attempt and failed in the
\* second, where step2 was failed on its dependency; the task ended with
\* the results of both attempts.
C13_Witness ==
  /\ Returned
  /\ raised = "none"
  /\ result.replan_count = 1
  /\ Len(result.step_results) = 6
  /\ result.step_results[1].step_id = "step1"
  /\ result.step_results[1].status = COMPLETED
  /\ result.step_results[4].step_id = "step1"
  /\ result.step_results[4].status = FAILED
  /\ result.step_results[5].error_message = DependenciesNotSatisfied

\* The i-th step depends on itself or on a step listed after it.
ForwardDependency(steps, i) ==
  \E k \in DOMAIN steps[i].dependencies :
    \E j \in i..Len(steps) : steps[j].id = steps[i].dependencies[k]

\* C33: _execute_plan passes once over the steps in the plan's order and
\* never reorders them: the results follow the listed order, and a step that
\* depends on itself or on a step listed later is recorded failed with
\* "Dependencies not satisfied" and executes no tool, also when the later
\* step completes in the same attempt.
C33_SingleForwardPass ==
  pc \in {"execute_plan", "verify"} =>
    /\ ResultIds(results) = SubSeq(StepIds(plan.steps), 1, Len(results))
    /\ \A i \in DOMAIN results :
         ForwardDependency(plan.steps, i) =>
           /\ results[i].status = FAILED
           /\ results[i].error_message = DependenciesNotSatisfied
           /\ \A c \in Range(invoked) : c[1] # plan.steps[i].id

\* C33 witness: the step depending on a later step failed, the later step
\* completed in the same attempt, and the step depending on itself failed.
C33_Witness ==
  /\ pc = "verify"
  /\ plan = SomePlan(ForwardPlan)
  /\ ForwardDependency(plan.steps, 1)
  /\ results[1].error_message = DependenciesNotSatisfied
  /\ results[2].status = COMPLETED
  /\ ForwardDependency(plan.steps, 3)
  /\ results[3].error_message = DependenciesNotSatisfied

\* C34: a step with a required tool that is not registered or that rejects
\* the step's parameters is recorded failed and none of the step's required
\* tools has been executed: every tool is resolved and validated before any
\* of them runs.
C34_AllValidatedBeforeAnyRuns ==
  pc \in {"execute_plan", "verify"} =>
    \A i \in DOMAIN results :
      OffendingTools(plan.steps[i]) # {} =>
        /\ results[i].status = FAILED
        /\ \A c \in Range(invoked) : c[1] # plan.steps[i].id

\* C35: when execute_task returns COMPLETED, every result of the last
\* attempt is completed, the last verification reported task_complete and
\* the error message is unset; when it returns FAILED, the error message is
\* set.
C35_ReturnedRecordConsistent ==
  Returned =>
    /\ result.status = COMPLETED =>
         /\ \A i \in DOMAIN step_results : step_results[i].status = COMPLETED
         /\ verification.task_complete
         /\ result.error_message = NoText
    /\ result.status = FAILED => result.error_message.set

\* C35 witness: a run completed on its second attempt, after an attempt
\* with a failed step.
C35_Witness ==
  /\ Returned
  /\ result.status = COMPLETED
  /\ result.replan_count >= 1
  /\ step_results # <<>>
  /\ \E i \in DOMAIN result.step_results : result.step_results[i].status = FAILED

\* C36: whatever max_replan_attempts is, the result execute_task returns
\* has a terminal status, COMPLETED or FAILED, and never PLANNING,
\* EXECUTING, VERIFYING or REPLANNING.
C36_ReturnsTerminalStatus ==
  Returned /\ raised # "create_agent" => result.status \in {COMPLETED, FAILED}

---------------------------------------------------------------------------
\* Properties of the registry.

\* C14: a register call for a name that is already registered fails and
\* leaves the tool map, the capability index and the domain index as they
\* were.
C14_DuplicateRegisterFails ==
  \A k \in DOMAIN reg_log :
    (reg_log[k].op = "register" /\ DictHas(reg_log[k].before.tools, reg_log[k].name))
      => /\ reg_log[k].raised
         /\ reg_log[k].after = reg_log[k].before

\* C15: register of a tool whose name is not registered, followed by
\* unregister of that name, leaves get_all_capabilities and get_all_domains
\* as they were before the register.
C15_RegisterUnregisterRoundTrip ==
  \A k \in DOMAIN reg_log :
    ( /\ k < Len(reg_log)
      /\ reg_log[k].op = "register"
      /\ ~DictHas(reg_log[k].before.tools, reg_log[k].name)
      /\ reg_log[k + 1].op = "unregister"
      /\ reg_log[k + 1].name = reg_log[k].name )
      => /\ get_all_capabilities(reg_log[k + 1].after)
              = get_all_capabilities(reg_log[k].before)
         /\ get_all_domains(reg_log[k + 1].after)
              = get_all_domains(reg_log[k].before)

\* How many times x is in the list.
Count(list, x) == Cardinality({i \in DOMAIN list : list[i] = x})

\* C16: every name listed under a capability or a domain is a registered
\* tool, and every registered tool is listed exactly once under each of its
\* capabilities and exactly once under its domain, and is found through
\* them.
C16_IndexesConsistent ==
  /\ \A i \in DOMAIN registry.capability_index :
       \A n \in Range(registry.capability_index[i][2]) : DictHas(registry.tools, n)
  /\ \A i \in DOMAIN registry.domain_index :
       \A n \in Range(registry.domain_index[i][2]) : DictHas(registry.tools, n)
  /\ \A i \in DOMAIN registry.tools :
       LET tool == registry.tools[i][2]
       IN /\ \A c \in Range(tool.capabilities) :
               Count(list_tools_by_capability(registry, c), tool.name) = 1
          /\ Count(DomainNames(registry, tool.domain), tool.name) = 1
          /\ tool.capabilities # <<>>
               => tool \in get_tools_for_capabilities(registry, tool.capabilities)

\* The name is listed under some capability or some domain.
Listed(reg, name) ==
  \/ \E i \in DOMAIN reg.capability_index : name \in Range(reg.capability_index[i][2])
  \/ \E i \in DOMAIN reg.domain_index : name \in Range(reg.domain_index[i][2])

\* C17: unregister returns true exactly when the name was registered, and
\* then get_tool does not find the name and no capability and no domain
\* lists it; otherwise it returns false and the tool map and both indexes
\* are as before.
C17_UnregisterEffect ==
  \A k \in DOMAIN reg_log :
    reg_log[k].op = "unregister" =>
      IF DictHas(reg_log[k].before.tools, reg_log[k].name)
      THEN /\ reg_log[k].returned = "True"
           /\ ~registry_get_tool(reg_log[k].after, reg_log[k].name).found
           /\ ~Listed(reg_log[k].after, reg_log[k].name)
      ELSE /\ reg_log[k].returned = "False"
           /\ reg_log[k].after = reg_log[k].before

\* C18: whatever calls have completed, a lookup made between two calls
\* finds every tool of get_all_tools under each of its capabilities and
\* under its domain, finds with get_tool every name that
\* list_tools_by_capability returns, and get_tools_for_domain resolves
\* every name of a domain.
C18_LookupsSeeWholeUpdates ==
  /\ \A t \in Range(get_all_tools(registry)) :
       /\ \A c \in Range(t.capabilities) :
            t.name \in Range(list_tools_by_capability(registry, c))
       /\ t.name \in Range(DomainNames(registry, t.domain))
  /\ \A c \in Range(get_all_capabilities(registry)) :
       \A n \in Range(list_tools_by_capability(registry, c)) :
         registry_get_tool(registry, n).found
  /\ \A d \in Range(get_all_domains(registry)) :
       ~get_tools_for_domain(registry, d).raised

---------------------------------------------------------------------------
\* Properties of the protocol server.

\* The last message was a request with this method, handled by a server
\* that was not initialized.
HandledUninitialized(methods) ==
  /\ ~mcp_last.none
  /\ ~mcp_last.was_initialized
  /\ mcp_last.message.is_dict
  /\ mcp_last.message.method \in methods

\* C19: a tools/list, tools/call, resources/list or ping request handled
\* before the server is initialized is answered with the error -32002.
C19_RejectedUntilInitialized ==
  HandledUninitialized({"tools/list", "tools/call", "resources/list", "ping"})
    => /\ mcp_last.response.is_error
       /\ mcp_last.response.code = NOT_INITIALIZED

\* C20: a tools/list or tools/call request handled before the server is
\* initialized is answered with the error -32002 under the request's id,
\* reads nothing from the registry, executes no tool and leaves the server
\* uninitialized.
C20_UninitializedToolsRejected ==
  HandledUninitialized({"tools/list", "tools/call"})
    => /\ mcp_last.response.is_error
       /\ mcp_last.response.code = NOT_INITIALIZED
       /\ mcp_last.response.id = mcp_last.message.id
       /\ mcp_last.response.result = NoPayload
       /\ mcp_last.reads = <<>>
       /\ mcp_last.executed = <<>>
       /\ ~mcp.initialized

\* C20 witness: a call of a registered tool, with arguments, was rejected
\* by a server that was never initialized.
C20_Witness ==
  /\ HandledUninitialized({"tools/call"})
  /\ registry = AppRegistry
  /\ mcp_last.message.params.name = "code_generator"
  /\ mcp_last.message.params.arguments = [language |-> "dart", specification |-> "s"]
  /\ mcp_last.response.code = NOT_INITIALIZED
  /\ mcp_last.executed = <<>>

\* The last message was a tools/call request, with params that are absent
\* or a dict, handled by an initialized server.
CallHandledInitialized ==
  /\ ~mcp_last.none
  /\ mcp_last.was_initialized
  /\ mcp_last.message.is_dict
  /\ mcp_last.message.method = "tools/call"
  /\ mcp_last.message.params.kind \in {"none", "dict"}

\* The tool the last tools/call named is registered.
CalledToolRegistered ==
  /\ mcp_last.message.params.name # ""
  /\ registry_get_tool(registry, mcp_last.message.params.name).found

C22_ToolFailureInEnvelope ==
  (CallHandledInitialized /\ CalledToolRegistered)
    => /\ ~mcp_last.response.is_error
       /\ mcp_last.response.result.kind = "call"
       /\ mcp_last.response.result.isError = (mcp_last.outcome = "raise")
       /\ mcp_last.response.id = mcp_last.message.id
       /\ mcp_last.executed =
            << <<mcp_last.message.params.name, mcp_last.message.params.arguments>> >>

\* C22 witness: execute of the code generator raised and the response is a
\* result whose envelope has isError set.
C22_Witness ==
  /\ CallHandledInitialized
  /\ mcp_last.message.params.name = "code_generator"
  /\ mcp_last.outcome = "raise"
  /\ ~mcp_last.response.is_error
  /\ mcp_last.response.result.isError
  /\ mcp_last.response.result.content = <<ToolErrorText>>

\* C23: every execute made through tools/call has arguments that the
\* tool's validate_parameters accepts.
C23_CallValidatesArguments ==
  \A k \in DOMAIN mcp_last.executed :
    validate_parameters(mcp_last.executed[k][1], mcp_last.executed[k][2])

\* The methods handle_message routes.
RoutedMethods == {"initialize", "tools/list", "tools/call", "resources/list", "ping"}

ErrorCodes ==
  {INVALID_REQUEST, METHOD_NOT_FOUND, INVALID_PARAMS, INTERNAL_ERROR, NOT_INITIALIZED}

\* C24: a request without a method is answered with the error -32600 and a
\* request with a method that is not routed with the error -32601, under
\* the request's id, on an initialized server as on an uninitialized one,
\* and neither changes the server; every error response has one of the
\* server's numeric codes and a message.
C24_InvalidRequestAndUnknownMethod ==
  ~mcp_last.none =>
    /\ (mcp_last.message.is_dict /\ mcp_last.message.method = "")
         => /\ mcp_last.response.is_error
            /\ mcp_last.response.code = INVALID_REQUEST
            /\ mcp_last.response.id = mcp_last.message.id
            /\ mcp.initialized = mcp_last.was_initialized
    /\ (mcp_last.message.is_dict /\ mcp_last.message.method \notin RoutedMethods \cup {""})
         => /\ mcp_last.response.is_error
            /\ mcp_last.response.code = METHOD_NOT_FOUND
            /\ mcp_last.response.id = mcp_last.message.id
            /\ mcp.initialized = mcp_last.was_initialized
    /\ mcp_last.response.is_error
         => /\ mcp_last.response.code \in ErrorCodes
            /\ mcp_last.response.message # <<>>

\* C24 witness: an uninitialized server answered a request without a method
\* with -32600.
C24_Witness ==
  /\ ~mcp_last.none
  /\ ~mcp_last.was_initialized
  /\ mcp_last.message.is_dict
  /\ mcp_last.message.method = ""
  /\ mcp_last.message.params.kind = "dict"
  /\ mcp_last.response.code = INVALID_REQUEST

\* C39: the server's state changes only through initialize.  No handled
\* message takes the initialized flag from true to false; a message that
\* changes the flag or the client capabilities is an initialize request
\* answered with success, so tools/list, tools/call, resources/list, ping
\* and every rejected request leave both as they were; and no message
\* changes the registry.
C39_OnlyInitializeChangesServer ==
  [][ /\ mcp.initialized => mcp'.initialized
      /\ registry' = registry
      /\ mcp' # mcp =>
           /\ mcp_last'.message.is_dict
           /\ mcp_last'.message.method = "initialize"
           /\ ~mcp_last'.response.is_error ]_vars

\* C39 witness: an initialized server that holds client capabilities has
\* just rejected a second initialize, whose params are not a dict, and is
\* still initialized with the same capabilities.
C39_Witness ==
  /\ ~mcp_last.none
  /\ mcp_last.was_initialized
  /\ mcp_last.message.method = "initialize"
  /\ mcp_last.message.params.kind = "list"
  /\ mcp_last.response.code = INTERNAL_ERROR
  /\ mcp.initialized
  /\ mcp.client_capabilities # <<>>

\* C40: every response of handle_message, success or error, the internal
\* error -32603 included, carries the id of the request it answers.
C40_ResponseCarriesRequestId ==
  (~mcp_last.none /\ mcp_last.message.is_dict) =>
    mcp_last.response.id = mcp_last.message.id

---------------------------------------------------------------------------
\* Properties of the supervisor.

\* The keywords of a worker type.
KeywordsOf(agent_type) ==
  Keywords[CHOOSE i \in DOMAIN Keywords : Keywords[i][1] = agent_type][2]

\* The worker types with a keyword occurring in the lower-cased task.
MatchedTypes(task) ==
  {a \in {CODING, RESEARCH, TESTING} : AnyKeyword(KeywordsOf(a), task)}

\* C25: the analysis of a task holds, each once, exactly the worker types
\* with a keyword occurring in the lower-cased description, and general
\* alone when there is none; the call decomposes exactly when more than
\* one type is returned, and otherwise it leaves task_graph as it was,
\* dispatches no worker and answers single_agent.
C25_ClassificationAndSingleAgent ==
  sup.pc # "idle" =>
    LET required_agents == sup.analysis.required_agents
    IN /\ Range(required_agents) =
            IF MatchedTypes(sup.task) = {} THEN {GENERAL} ELSE MatchedTypes(sup.task)
       /\ Len(required_agents) = Cardinality(Range(required_agents))
       /\ sup.analysis.needs_coordination = (Len(required_agents) > 1)
       /\ IF Len(required_agents) > 1
          THEN sup.pc = "done" => sup.response.approach = "multi_agent"
          ELSE /\ sup.task_graph = sup.graph_before
               /\ sup.dispatched = <<>>
               /\ sup.pc \in {"analyzed", "done"}
               /\ sup.pc = "done" => sup.response.approach = "single_agent"

\* C25 witness: after a coordinated task left its graph, a task that only
\* matches "test" (inside "latest") was answered by a single agent and the
\* graph is the one of the earlier task.
C25_Witness ==
  /\ sup.pc = "done"
  /\ sup.task = TaskLatest
  /\ sup.analysis.required_agents = <<TESTING>>
  /\ sup.response.approach = "single_agent"
  /\ sup.task_graph # <<>>
  /\ sup.task_graph = sup.graph_before

\* The identifier decompose_task gives to the assignment of a worker type.
AssignmentId(agent_type) ==
  CASE agent_type = RESEARCH -> "research_001"
    [] agent_type = CODING -> "coding_001"
    [] agent_type = TESTING -> "testing_001"
    [] OTHER -> "general_001"

\* The stages among the required worker types, in stage order.
Stages(required_agents) ==
  SelectSeq(<<RESEARCH, CODING, TESTING>>, LAMBDA a : a \in Range(required_agents))

\* The graph has one assignment per stage in stage order (one general
\* assignment when there is no stage), each later stage depends on the
\* stage before it when that one is present, and every dependency names an
\* assignment earlier in the list.
TemplatedGraph(required_agents, assignments) ==
  LET stages == IF Stages(required_agents) = <<>> THEN <<GENERAL>>
                ELSE Stages(required_agents)
  IN /\ Len(assignments) = Len(stages)
     /\ \A i \in DOMAIN assignments :
          /\ assignments[i].agent_type = stages[i]
          /\ assignments[i].task_id = AssignmentId(stages[i])
          /\ assignments[i].dependencies =
               CASE stages[i] = CODING /\ RESEARCH \in Range(required_agents)
                      -> <<"research_001">>
                 [] stages[i] = TESTING /\ CODING \in Range(required_agents)
                      -> <<"coding_001">>
                 [] OTHER -> <<>>
          /\ \A k \in DOMAIN assignments[i].dependencies :
               \E j \in 1..(i - 1) :
                 assignments[j].task_id = assignments[i].dependencies[k]

\* C26: the graph decompose_task returns for the worker types matched for a
\* task, called directly or by execute_coordinated_task, is the templated
\* graph: stage order research, coding, testing, dependencies on the prior
\* stage only, each naming an earlier assignment of the same graph.
C26_DecompositionGraph ==
  /\ ~sup.decomposed.none =>
       TemplatedGraph(sup.decomposed.required_agents, sup.decomposed.assignments)
  /\ sup.pc \in {"while", "for"} =>
       TemplatedGraph(sup.analysis.required_agents, sup.assignments)

\* C26 witness: decompose_task was called for coding, research and testing
\* and returned research, coding, testing, each depending on the one
\* before.
C26_Witness ==
  /\ ~sup.decomposed.none
  /\ sup.decomposed.required_agents = <<CODING, RESEARCH, TESTING>>
  /\ Len(sup.decomposed.assignments) = 3
  /\ sup.decomposed.assignments[1].task_id = "research_001"
  /\ sup.decomposed.assignments[2].dependencies = <<"research_001">>
  /\ sup.decomposed.assignments[3].dependencies = <<"coding_001">>

\* The assignment of the current graph with this identifier.
AssignmentOf(task_id) ==
  sup.assignments[CHOOSE i \in DOMAIN sup.assignments :
                    sup.assignments[i].task_id = task_id]

\* The position of an identifier in the dispatch history, 0 when absent.
DispatchIndex(task_id) ==
  IF task_id \in Range(sup.dispatched)
  THEN CHOOSE k \in DOMAIN sup.dispatched : sup.dispatched[k] = task_id
  ELSE 0

\* C27: a subtask is dispatched only when every subtask it depends on is
\* completed, and so after each of them was dispatched; for a task
\* matching research and coding only there are two assignments, coding
\* depending on research, and coding is not dispatched before research is
\* completed.
C27_DependenciesBeforeDispatch ==
  /\ [](sup.pc \in {"while", "for", "done"} =>
          /\ \A k \in DOMAIN sup.dispatched :
               LET a == AssignmentOf(sup.dispatched[k])
               IN /\ a.status = "completed"
                  /\ \A d \in Range(a.dependencies) :
                       DispatchIndex(d) \in 1..(k - 1)
          /\ (sup.pc # "done" /\ MatchedTypes(sup.task) = {RESEARCH, CODING}) =>
               /\ Len(sup.assignments) = 2
               /\ sup.assignments[1].task_id = "research_001"
               /\ sup.assignments[2].task_id = "coding_001"
               /\ sup.assignments[2].dependencies = <<"research_001">>
               /\ "coding_001" \in Range(sup.dispatched) =>
                    sup.assignments[1].status = "completed")
  /\ [][(sup.pc = "for" /\ Len(sup'.dispatched) = Len(sup.dispatched) + 1) =>
          \A d \in Range(sup.assignments[sup.i].dependencies) :
            /\ d \in sup.completed_tasks
            /\ AssignmentOf(d).status = "completed"]_vars

\* C27 witness: for "Find API" research was dispatched and completed, then
\* coding.
C27_Witness ==
  /\ sup.pc = "for"
  /\ sup.task = TaskFindApi
  /\ sup.dispatched = <<"research_001", "coding_001">>
  /\ sup.assignments[1].status = "completed"
  /\ sup.assignments[2].status = "completed"

\* Every assignment of the current graph is completed and has its result.
AllAssignmentsCompleted ==
  \A i \in DOMAIN sup.assignments :
    /\ sup.assignments[i].status = "completed"
    /\ ~sup.assignments[i].result.none
    /\ sup.assignments[i].task_id \in sup.completed_tasks

\* C28: a readiness loop that was entered ends, and ends with every
\* assignment completed; a pass that has gone over all the assignments has
\* completed at least one of them.
C28_ReadinessLoopTerminates ==
  /\ [](sup.pc = "for" =>
          /\ sup.pass_completed <= Len(sup.assignments)
          /\ sup.i > Len(sup.assignments) => sup.pass_completed >= 1)
  /\ []((sup.pc = "done" /\ sup.response.approach = "multi_agent") =>
          /\ AllAssignmentsCompleted
          /\ sup.response.subtasks_completed = Len(sup.assignments))
  /\ (sup.pc = "while" ~> (sup.pc = "done" /\ AllAssignmentsCompleted))

\* C28 witness: one pass over research, coding and testing completed the
\* three of them.
C28_Witness ==
  /\ sup.pc = "for"
  /\ Len(sup.assignments) = 3
  /\ sup.i > Len(sup.assignments)
  /\ sup.pass_completed = 3
  /\ AllAssignmentsCompleted

\* The task identifiers of a list of results.
ResultTaskIds(rs) == [i \in DOMAIN rs |-> rs[i].task_id]

\* C29: within one coordinated execution an assignment is dispatched at
\* most once; its status is pending until its dispatch makes it completed
\* with its result, after which the assignment does not change; and the
\* results hold one entry per dispatched assignment, hence exactly one per
\* assignment when the call returns.
C29_DispatchedOnce ==
  /\ [](sup.pc \in {"while", "for", "done"} =>
          /\ \A t \in Range(sup.dispatched) : Count(sup.dispatched, t) = 1
          /\ sup.pc # "done" => ResultTaskIds(sup.results) = sup.dispatched
          /\ \A i \in DOMAIN sup.assignments :
               /\ sup.assignments[i].status \in {"pending", "completed"}
               /\ sup.pc # "done" =>
                    (sup.assignments[i].status = "completed"
                       <=> sup.assignments[i].task_id \in Range(sup.dispatched))
          /\ (sup.pc = "done" /\ sup.response.approach = "multi_agent") =>
               /\ Len(sup.response.results) = Len(sup.assignments)
               /\ \A i \in DOMAIN sup.assignments :
                    Count(ResultTaskIds(sup.response.results),
                          sup.assignments[i].task_id) = 1)
  /\ [][(sup.pc \in {"while", "for"}) =>
          /\ Len(sup'.assignments) = Len(sup.assignments)
          /\ \A i \in DOMAIN sup.assignments :
               IF sup.assignments[i].status = "completed"
               THEN sup'.assignments[i] = sup.assignments[i]
               ELSE \/ sup'.assignments[i] = sup.assignments[i]
                    \/ /\ sup'.assignments[i].status = "completed"
                       /\ sup'.dispatched =
                            Append(sup.dispatched, sup.assignments[i].task_id)]_vars

\* C29 witness: the call for research, coding and testing returned three
\* results, one per assignment, each dispatched once.
C29_Witness ==
  /\ sup.pc = "done"
  /\ sup.response.approach = "multi_agent"
  /\ sup.dispatched = <<"research_001", "coding_001", "testing_001">>
  /\ ResultTaskIds(sup.response.results) = sup.dispatched
  /\ AllAssignmentsCompleted

---------------------------------------------------------------------------
\* Properties of the status route.

\* The last two get_task_status calls asked for the same task and the
\* stored record did not change between them.
RepeatedStatusRead ==
  /\ ~status_log.prev.none
  /\ status_log.cur.task_id = status_log.prev.task_id
  /\ status_log.cur.before = status_log.prev.after

\* C30: get_task_status is a pure read: a call leaves the stored record as
\* it found it, and a call repeated for the same task with no change of the
\* record in between returns the same data as the call before it.
C30_StatusIsPureRead ==
  /\ ~status_log.cur.none => status_log.cur.after = status_log.cur.before
  /\ ~status_log.prev.none => status_log.prev.after = status_log.prev.before
  /\ RepeatedStatusRead => status_log.cur.response = status_log.prev.response

\* The record of a completed task with an output is read twice in a row.
C30_Witness ==
  /\ RepeatedStatusRead
  /\ status_log.cur.task_id = TaskId
  /\ status_log.cur.before = task_results
  /\ task_results.status = COMPLETED
  /\ ~task_results.final_output.none
  /\ status_log.cur.response.final_output = task_results.final_output
  /\ status_log.cur.response = status_log.prev.response

\* The orchestrator is driving the task: execute_task has built its record
\* and has not returned it yet.
Driven == pc \notin {"pending", "return", "done"}

\* C37: while the orchestrator drives the task, the status get_task_status
\* returns for it is the lifecycle status of the orchestrator's record, and
\* once the run is over it is the terminal status of that record.
C37_StatusFollowsLifecycle ==
  (Driven \/ (pc = "done" /\ raised # "create_agent")) =>
    get_task_status(task_results, TaskId).response.status = result.status

\* C38: in every response of get_task_status that reports a plan, the
\* completed-step count is at most the step count of that plan, however
\* many replans the run made.
C38_CompletedStepsWithinPlan ==
  LET response == status_log.cur.response
  IN (~status_log.cur.none /\ response.outcome = "return"
        /\ ~response.step_count.none) =>
       response.completed_steps.value <= response.step_count.value

---------------------------------------------------------------------------
\* Properties of the routes with the supervisor.

\* C32: the stored record of an accepted task eventually has the status
\* completed or failed, whether the single agent or the supervisor runs it
\* and whether or not an exception occurs, and a stored status that is
\* terminal never changes again.
C32_StoredRecordReachesTerminal ==
  /\ <>(task_results.status \in {COMPLETED, FAILED})
  /\ [][task_results.status \in TerminalStatus
          => task_results'.status = task_results.status]_vars

\* C32 witness: a task accepted by POST /agent/task was coordinated by the
\* supervisor over three workers and its record stored as completed.
C32_Witness ==
  /\ route.pc = "done"
  /\ route.endpoint = "task"
  /\ sup.response.approach = "multi_agent"
  /\ sup.response.subtasks_completed = 3
  /\ task_results.status = COMPLETED
  /\ task_results.final_output = ResultData(sup.response)


\* What task t's coordinated call returns when no other task runs: one
\* result for each assignment of its own decomposition, in list order.
AloneResponse(task) ==
  LET analysis == analyze_task_complexity(task)
      own == decompose_task(task, analysis.required_agents)
  IN IF ~analysis.needs_coordination
     THEN SingleAgentResponse(analysis)
     ELSE AggregatedResponse(analysis,
                             [k \in 1..Len(own) |-> SubtaskResult(own[k])])

\* A step of task u leaves what another task t reads as it was: t's
\* locals, the list t's loop walks, t's stored record and the status
\* response built from it.
OthersUntouched ==
  \A t \in ConcurrentTasks :
    t # app'.actor =>
      /\ app'.run[t] = app.run[t]
      /\ LoopAssignments(app', t) = LoopAssignments(app, t)
      /\ app'.task_results[t] = app.task_results[t]
      /\ TaskStatusResponse(t, app'.task_results[t])
           = TaskStatusResponse(t, app.task_results[t])

\* A record stored by a coordinated call holds what the call returns when
\* the task runs alone.
StoredAsAlone ==
  \A t \in ConcurrentTasks :
    (/\ app.run[t].pc = "done"
     /\ UsesSupervisor(app.run[t])
     /\ app.task_results[t].status = COMPLETED)
      => app.task_results[t].final_output
           = ResultData(AloneResponse(app.run[t].task))

\* C31: tasks executed concurrently share no mutable state that one writes
\* and another reads: no step taken while driving one task changes the
\* locals, the walked assignments, the stored record or the status response
\* of another task, and a task coordinated next to another one stores what
\* it stores when run alone.
C31_ConcurrentTasksIsolated ==
  [][OthersUntouched]_vars /\ []StoredAsAlone

\* Both tasks were coordinated, the second decomposed while the first was
\* between its decomposition and its store, and both stored their own results.
C31_Witness ==
  /\ app # NoApp
  /\ \A t \in ConcurrentTasks :
       /\ app.run[t].pc = "done"
       /\ app.run[t].call.analysis.needs_coordination
       /\ app.task_results[t].status = COMPLETED
  /\ app.run[TaskId].task # app.run[OtherTaskId].task
  /\ app.task_graph = OtherTaskId
  /\ app.actor = TaskId
====
